---------------------------- MODULE Spec2Model ----------------------------
(***************************************************************************)
(* A model of pylibre's order pipeline:                                    *)
(*   strategy (BaseStrategy / OrderBookMakerStrategy)                      *)
(*     -> BaseStrategy._place_single_order                                 *)
(*     -> DexClient.place_order (memo + amount encoding)                   *)
(*     -> LibreClient.transfer (local validation, then the chain),         *)
(* and of the reads and cancels of the order book:                         *)
(*   DexClient.fetch_order_book -> LibreClient.get_table_rows,             *)
(*   DexClient.cancel_order -> LibreClient.execute_action.                 *)
(*                                                                         *)
(* Numbers.  A Python Decimal with a finite expansion, and every decimal   *)
(* string, is a record [m, e] standing for m * 10^-e: e is the number of   *)
(* fractional digits, which str() and the memo show.  A computed value     *)
(* that need not have a finite expansion (a quotient) is an exact          *)
(* fraction [n, d, e] standing for (n / d) * 10^-e; the decimal context's  *)
(* 28 significant digits are far beyond the 10 fractional digits any such  *)
(* value is rounded to before it is used, and are modelled as exact.       *)
(***************************************************************************)
EXTENDS Integers, Sequences, FiniteSets, TLC

VARIABLES
    pc,                 \* position of the running call
    base_symbol,        \* BaseStrategy.base_symbol
    quote_symbol,       \* BaseStrategy.quote_symbol
    order,              \* arguments of the DexClient call in progress
    encoded,            \* what place_order computed: amount, contract, memo
    xfer,               \* arguments of the client.transfer call, as bound
    result,             \* result dict of the call in progress
    ledger,             \* actions signed and sent to the chain, in order
    parameters,         \* BaseStrategy.parameters
    balance_response,   \* what client.get_currency_balance returns
    signal,             \* price, min_spread, max_spread of the pass
    loc,                \* local variables of the running method
    attempts,           \* the _place_single_order calls of the pass, in order
    orderbook_filled,   \* OrderBookMakerStrategy.orderbook_filled
    price_file,         \* content of shared_data/<pair>_price.json
    venue,              \* rows of dex.libre's orderbook2 table for the pair
    reply,              \* what the ledger node answered to the call
    running,            \* BaseStrategy.running
    self_orders         \* OrderBookFillerStrategy.orders, the tracked orders

vars == <<pc, base_symbol, quote_symbol, order, encoded, xfer, result, ledger,
          parameters, balance_response, signal, loc, attempts,
          orderbook_filled, price_file, venue, reply, running,
          self_orders>>

dexVars == <<order, encoded, xfer, result, ledger>>

stratVars == <<parameters, balance_response, signal, loc, attempts,
               orderbook_filled>>

envVars == <<price_file, venue, reply>>

-----------------------------------------------------------------------------
(* decimal arithmetic *)

RECURSIVE Pow10(_)
Pow10(k) == IF k = 0 THEN 1 ELSE 10 * Pow10(k - 1)

Dec(m, e) == [m |-> m, e |-> e]

\* (n / d) * 10^-e, d > 0
Frac(n, d, e) == [n |-> n, d |-> d, e |-> e]

MaxOf(a, b) == IF a >= b THEN a ELSE b

MinOf(a, b) == IF a < b THEN a ELSE b

\* the value with e fractional digits, e >= x.e
Rescale(x, e) == Dec(x.m * Pow10(e - x.e), e)

DecLess(x, y) ==
    LET e == MaxOf(x.e, y.e) IN Rescale(x, e).m < Rescale(y, e).m

DecSame(x, y) ==
    LET e == MaxOf(x.e, y.e) IN Rescale(x, e).m = Rescale(y, e).m

DecMul(x, y) == Dec(x.m * y.m, x.e + y.e)

DecAsFrac(x) == Frac(x.m, 1, x.e)

\* x * y for a fraction x and a decimal y
FracMulDec(x, y) == Frac(x.n * y.m, x.d, x.e + y.e)

\* 1 + sign * x for a fraction x, sign 1 or -1
OnePlus(sign, x) == Frac(x.d * Pow10(x.e) + sign * x.n, x.d, x.e)

\* n / d rounded to the nearest integer, a tie to the even one (d > 0)
RoundHalfEven(n, d) ==
    LET q == n \div d
        r == n % d
    IN  IF 2 * r < d THEN q
        ELSE IF 2 * r > d THEN q + 1
        ELSE IF q % 2 = 0 THEN q ELSE q + 1

\* x.quantize(10^-p), and f"{x:.{p}f}", of a computed value (half even)
\* (for p > x.e the whole part of n / d is scaled apart from the remainder;
\* the scaled whole part is even, so the tie rule is unaffected)
QuantizeFrac(x, p) ==
    IF p > x.e
    THEN Dec((x.n \div x.d) * Pow10(p - x.e)
                 + RoundHalfEven((x.n % x.d) * Pow10(p - x.e), x.d), p)
    ELSE Dec(RoundHalfEven(x.n, x.d * Pow10(x.e - p)), p)

\* f"{x:.{p}f}" of a Decimal: exactly p fractional digits
FormatF(x, p) ==
    IF p >= x.e THEN Rescale(x, p)
    ELSE Dec(RoundHalfEven(x.m, Pow10(x.e - p)), p)

-----------------------------------------------------------------------------
(* token tables *)

Symbols == {"BTC", "USDT", "LIBRE"}

get_contract_for_symbol(symbol) ==
    CASE symbol = "BTC"   -> "btc.libre"
      [] symbol = "USDT"  -> "usdt.libre"
      [] symbol = "LIBRE" -> "libre.libre"
      [] OTHER            -> ""

TOKEN_SPECS(symbol) ==
    CASE symbol = "BTC"   -> [contract |-> "btc.libre",   precision |-> 8]
      [] symbol = "USDT"  -> [contract |-> "usdt.libre",  precision |-> 8]
      [] symbol = "LIBRE" -> [contract |-> "eosio.token", precision |-> 4]


-----------------------------------------------------------------------------
(* strings that travel through the calls.  A memo, a contract name and the *)
(* absent value are records, so that a value bound to the wrong parameter  *)
(* stays recognisable.                                                     *)

NoText == [kind |-> "none"]

NoCall == [kind |-> "none"]

Accounts == {"bentester"}

NameText(s) == [kind |-> "name", name |-> s]

\* f"{side}:{quantity} {base_symbol}:{price_str} {quote_symbol}"
MemoText(side, quantity, base, price_str, quote) ==
    [kind |-> "order_memo", side |-> side, quantity |-> quantity,
     base |-> base, price |-> price_str, quote |-> quote]

-----------------------------------------------------------------------------
(* DexClient.place_order, up to the transfer call *)

\* price_str: 8 places for a BTC quote, 4 for any other
MemoPricePlaces(quote) == IF quote = "BTC" THEN 8 ELSE 4

\* which asset a side transfers, and how much of it
EncodeAmountMut(order_type, quantity_decimal, price_decimal) ==
    IF order_type = "buy" THEN quantity_decimal
    ELSE DecMul(quantity_decimal, price_decimal)
EncodeAmount(order_type, quantity_decimal, price_decimal) ==
    IF order_type = "buy" THEN DecMul(quantity_decimal, price_decimal)
    ELSE quantity_decimal

EncodeContract(order_type, base, quote) ==
    IF order_type = "buy" THEN get_contract_for_symbol(quote)
    ELSE get_contract_for_symbol(base)

\* o: [account, order_type, quantity, price, quote_symbol, base_symbol]
Encode(o) ==
    LET price_str == FormatF(o.price, MemoPricePlaces(o.quote_symbol))
        side      == IF o.order_type = "buy" THEN "buy" ELSE "sell"
    IN  [valid    |-> /\ get_contract_for_symbol(o.base_symbol) # ""
                      /\ get_contract_for_symbol(o.quote_symbol) # "",
         amount   |-> EncodeAmount(o.order_type, o.quantity, o.price),
         contract |-> EncodeContract(o.order_type, o.base_symbol, o.quote_symbol),
         memo     |-> MemoText(side, o.quantity, o.base_symbol, price_str,
                               o.quote_symbol)]

\* self.client.transfer(account, "dex.libre", str(amount), contract, memo)
\* against transfer(from_account, to_account, quantity, memo, contract):
\* the fourth argument lands in memo, the fifth in contract; str(amount) is
\* the number alone, one word.
TransferCall(o, enc) ==
    [from_account |-> o.account,
     to_account   |-> "dex.libre",
     quantity     |-> <<enc.amount>>,
     memo         |-> NameText(enc.contract),
     contract     |-> enc.memo]

-----------------------------------------------------------------------------
(* LibreClient.transfer *)

\* transfer without the `elif contract is None` branch
TransferLocalMut(t) ==
    IF Len(t.quantity) # 2
    THEN [error |-> "Invalid quantity format", request |-> t]
    ELSE LET symbol == t.quantity[2] IN
         IF t.contract = NoText /\ symbol \in Symbols
         THEN [error   |-> "",
               request |-> [t EXCEPT
                   !.contract = NameText(TOKEN_SPECS(symbol).contract),
                   !.quantity = <<FormatF(t.quantity[1],
                                          TOKEN_SPECS(symbol).precision),
                                  symbol>>]]
         ELSE [error |-> "", request |-> t]

\* The outcome of transfer before anything is sent: the error, or "" with
\* the request as it will be signed.  t.quantity is the words of the
\* quantity string.
TransferLocal(t) ==
    IF Len(t.quantity) # 2
    THEN [error |-> "Invalid quantity format", request |-> t]
    ELSE LET symbol == t.quantity[2] IN
         IF t.contract = NoText /\ symbol \in Symbols
         THEN [error   |-> "",
               request |-> [t EXCEPT
                   !.contract = NameText(TOKEN_SPECS(symbol).contract),
                   !.quantity = <<FormatF(t.quantity[1],
                                          TOKEN_SPECS(symbol).precision),
                                  symbol>>]]
         ELSE IF t.contract = NoText
         THEN [error |-> "No contract specified", request |-> t]
         ELSE [error |-> "", request |-> t]

\* what the chain may answer to a signed transaction
\* (a transaction id, a response without one or with an empty one, or an
\* exception out of link / sign / send)
ChainReplies == {"tx_id", "no_tx_id", "empty_tx_id", "raise"}

\* tx_id = response.get("transaction_id") tested only for None
has_tx_idMut(answer) == answer # "no_tx_id"

\* "if not tx_id": a missing and an empty transaction id are both refused
has_tx_id(answer) == answer = "tx_id"

\* the result dict of transfer; has_key: private_keys holds from_account
TransferResult(t, has_key, answer) ==
    LET checked == TransferLocal(t) IN
    IF checked.error # ""
    THEN [success |-> FALSE, error |-> checked.error, sent |-> FALSE]
    ELSE IF ~has_key THEN [success |-> FALSE, error |-> "No private key found", sent |-> FALSE]
    ELSE IF answer = "raise" THEN [success |-> FALSE, error |-> "send failed", sent |-> TRUE]
    ELSE IF ~has_tx_id(answer)
    THEN [success |-> FALSE, error |-> "Transaction rejected by the blockchain", sent |-> TRUE]
    ELSE [success |-> TRUE, error |-> "", sent |-> TRUE]

\* the result dict of place_order
PlaceOrderResult(o, has_key, answer) ==
    LET enc == Encode(o) IN
    IF ~enc.valid
    THEN [success |-> FALSE, error |-> "Invalid symbol pair", sent |-> FALSE]
    ELSE TransferResult(TransferCall(o, enc), has_key, answer)

-----------------------------------------------------------------------------
(* BaseStrategy helpers *)

\* DEFAULT_COIN_LIMITS, and the fallback of _get_order_limits; each value is
\* Decimal(str(float))
DEFAULT_COIN_LIMITS(symbol) ==
    CASE symbol = "BTC"   -> [min_order_value |-> Dec(1, 4),
                              max_order_value |-> Dec(1, 3)]
      [] symbol = "LIBRE" -> [min_order_value |-> Dec(1000, 1),
                              max_order_value |-> Dec(10000, 1)]
      [] OTHER            -> [min_order_value |-> Dec(100, 1),
                              max_order_value |-> Dec(1000, 1)]

get_order_limits(params, base) ==
    [min_order |-> IF params.min_order_value = NoText
                   THEN DEFAULT_COIN_LIMITS(base).min_order_value
                   ELSE params.min_order_value,
     max_order |-> IF params.max_order_value = NoText
                   THEN DEFAULT_COIN_LIMITS(base).max_order_value
                   ELSE params.max_order_value]

\* _get_available_balance: only a non-empty list whose first entry is
\* "<amount> <base_symbol>" gives a balance; anything else gives 0
get_available_balance(resp, base) ==
    IF resp.kind = "list" /\ resp.symbol = base THEN resp.amount
    ELSE Dec(0, 0)

get_precision(base, quote) ==
    IF base = "BTC" /\ quote # "BTC" THEN 8
    ELSE IF quote = "BTC" THEN 10
    ELSE IF base = "USDT" THEN 2
    ELSE 8

format_price_places(base, quote) ==
    IF quote = "USDT" THEN 2 ELSE get_precision(base, quote)

\* _format_price(price): the price string handed to dex.place_order
format_price(price, base, quote) ==
    QuantizeFrac(price, format_price_places(base, quote))

\* _place_single_order without the test of the price
place_single_orderMut(account, order_type, quantity, price, base, quote, transfer_ok) ==
    IF quantity.m <= 0
    THEN [called |-> FALSE, success |-> FALSE, call |-> NoCall]
    ELSE LET o == [kind |-> "place_order", account |-> account,
                   order_type |-> order_type, quantity |-> quantity,
                   price |-> format_price(price, base, quote),
                   quote_symbol |-> quote, base_symbol |-> base]
         IN  [called |-> TRUE,
              success |-> Encode(o).valid /\ transfer_ok,
              call |-> o]

\* _place_single_order(order_type, quantity, price, _): quantity is a
\* string, price a Decimal.  transfer_ok is whether the client's transfer
\* reports success.  called: dex.place_order was reached.
place_single_order(account, order_type, quantity, price, base, quote, transfer_ok) ==
    IF quantity.m <= 0 \/ price.n <= 0
    THEN [called |-> FALSE, success |-> FALSE, call |-> NoCall]
    ELSE LET o == [kind |-> "place_order", account |-> account,
                   order_type |-> order_type, quantity |-> quantity,
                   price |-> format_price(price, base, quote),
                   quote_symbol |-> quote, base_symbol |-> base]
         IN  [called |-> TRUE,
              success |-> Encode(o).valid /\ transfer_ok,
              call |-> o]

\* an entry of attempts
Attempt(order_type, quantity, spread, price, r) ==
    [order_type |-> order_type, quantity |-> quantity, spread |-> spread,
     price |-> price, called |-> r.called, call |-> r.call]

-----------------------------------------------------------------------------
(* BaseStrategy.place_distributed_orders(base_price, min_spread, max_spread) *)

\* max_possible_orders: total_balance / min_order rounded down
MaxPossibleOrders(total_balance, min_order) ==
    LET e == MaxOf(total_balance.e, min_order.e)
    IN  Rescale(total_balance, e).m \div Rescale(min_order, e).m

\* num_orders = min(20, max_possible_orders)
NumOrders(max_possible_orders) ==
    IF max_possible_orders < 20 THEN max_possible_orders ELSE 20

\* (total_balance / parts).quantize(Decimal('0.00000001'), ROUND_DOWN)
QuantizeShareDown(total_balance, parts) ==
    Dec(Rescale(total_balance, 8).m \div parts, 8)

\* max(min_order, share): min_order unless the share is larger
PerOrderQuantity(min_order, share) ==
    IF DecLess(min_order, share) THEN share ELSE min_order

\* min_spread + spread_step * i, spread_step = (max - min) / steps
SpreadUp(lo, hi, steps, i) ==
    LET e == MaxOf(lo.e, hi.e)
        l == Rescale(lo, e).m
        h == Rescale(hi, e).m
    IN  Frac(l * steps + (h - l) * i, steps, e)

\* base_price * (1 + direction * spread)
PriceAt(base_price, direction, spread) ==
    FracMulDec(OnePlus(direction, spread), base_price)

DistStart ==
    /\ pc = "dist_start"
    /\ LET lim   == get_order_limits(parameters, base_symbol)
           total == get_available_balance(balance_response, base_symbol)
           maxp  == IF lim.min_order.m = 0 THEN 0
                    ELSE MaxPossibleOrders(total, lim.min_order)
           num   == NumOrders(maxp)
           share == IF num > 0 THEN QuantizeShareDown(total, num) ELSE Dec(0, 8)
           per   == PerOrderQuantity(lim.min_order, share)
           ops   == num \div 2
           \* min_order = 0 and orders_per_side = 0 both divide by zero:
           \* the except clause returns False
           fails == lim.min_order.m = 0 \/ num = 0 \/ ops = 0
       IN  /\ loc' = [min_order |-> lim.min_order, max_order |-> lim.max_order,
                      total_balance |-> total, num_orders |-> num,
                      per_order_quantity |-> per, orders_per_side |-> ops,
                      i |-> 0, successful_orders |-> 0,
                      raised |-> lim.min_order.m = 0 \/ (num > 0 /\ ops = 0),
                      ret |-> FALSE]
           /\ pc' = IF fails THEN "dist_done" ELSE "dist_buy"
    /\ UNCHANGED envVars
    /\ UNCHANGED <<self_orders, running, base_symbol, quote_symbol, parameters, balance_response,
                   signal, attempts, orderbook_filled>>
    /\ UNCHANGED dexVars

\* one turn of a placement loop, or the step out of it
DistPlace(side, direction, next_pc) ==
    /\ IF loc.i < loc.orders_per_side
       THEN \E transfer_ok \in BOOLEAN :
              LET spread == SpreadUp(signal.min_spread, signal.max_spread,
                                     loc.orders_per_side, loc.i)
                  price  == PriceAt(signal.price, direction, spread)
                  qstr   == FormatF(loc.per_order_quantity, 8)
                  r      == place_single_order("bentester", side, qstr, price,
                                base_symbol, quote_symbol, transfer_ok)
              IN  /\ attempts' = Append(attempts,
                                        Attempt(side, qstr, spread, price, r))
                  /\ loc' = [loc EXCEPT !.i = @ + 1,
                                 !.successful_orders =
                                     IF r.success THEN @ + 1 ELSE @]
                  /\ order' = r.call
                  /\ encoded' = IF r.called THEN Encode(r.call) ELSE NoText
                  /\ pc' = pc
       ELSE /\ loc' = [loc EXCEPT !.i = 0,
                           !.ret = (next_pc = "dist_done"
                                    /\ loc.successful_orders > 0)]
            /\ pc' = next_pc
            /\ UNCHANGED <<attempts, order, encoded>>
    /\ UNCHANGED envVars
    /\ UNCHANGED <<self_orders, running, base_symbol, quote_symbol, parameters, balance_response,
                   signal, xfer, result, ledger, orderbook_filled>>

DistBuy == pc = "dist_buy" /\ DistPlace("buy", -1, "dist_sell")

DistSell == pc = "dist_sell" /\ DistPlace("sell", 1, "dist_done")

MaxBalanceK == 21

\* min_spread_percentage, max_spread_percentage as Decimal(str(float))
SpreadRanges == { [lo |-> Dec(6, 3), hi |-> Dec(1, 2)],
                  [lo |-> Dec(1, 2), hi |-> Dec(1, 2)],
                  [lo |-> Dec(4, 3), hi |-> Dec(6, 3)] }

\* the pair, its price, its configured limits and the balances tried:
\* k * 1.05 minimum orders for k up to MaxBalanceK, and 1.0
DistSetups ==
    { [base |-> "BTC", quote |-> "USDT", price |-> Dec(200, 2),
       min_order_value |-> NoText, max_order_value |-> NoText,
       balances |-> { Dec(k * 10500, 8) : k \in 0..MaxBalanceK }
                    \cup { Dec(100000000, 8) }],
      [base |-> "LIBRE", quote |-> "BTC", price |-> Dec(1, 8),
       min_order_value |-> Dec(1, 3), max_order_value |-> Dec(1, 2),
       balances |-> { Dec(k * 105, 5) : k \in 0..MaxBalanceK }
                    \cup { Dec(10000, 4) }] }

BalanceResponses(amounts, base) ==
    { [kind |-> "list", amount |-> a, symbol |-> base] : a \in amounts }
    \cup { [kind |-> "list", amount |-> a, symbol |-> "USDT"] : a \in {Dec(100000000, 8)} }
    \cup { [kind |-> "str"], [kind |-> "empty"], [kind |-> "raise"] }

InitDist ==
    /\ pc = "dist_start"
    /\ \E su \in DistSetups, sp \in SpreadRanges, n \in {10, 20} :
         /\ base_symbol = su.base
         /\ quote_symbol = su.quote
         /\ parameters = [min_order_value |-> su.min_order_value,
                          max_order_value |-> su.max_order_value,
                          num_orders |-> n]
         /\ balance_response \in BalanceResponses(su.balances, su.base)
         /\ signal = [price |-> su.price, min_spread |-> sp.lo,
                      max_spread |-> sp.hi]
    /\ loc = NoText
    /\ attempts = <<>>
    /\ order = NoCall
    /\ encoded = NoText
    /\ xfer = NoText
    /\ result = NoText
    /\ ledger = <<>>
    /\ orderbook_filled = FALSE
    /\ price_file = NoText
    /\ venue = <<>>
    /\ reply = NoText
    /\ running = TRUE
    /\ self_orders = {}

NextDist == DistStart \/ DistBuy \/ DistSell

SpecDist == InitDist /\ [][NextDist]_vars

-----------------------------------------------------------------------------
(* OrderBookMakerStrategy: place_orders, fill_orderbook_gradually,         *)
(* maintain_orderbook.  One call of place_orders is a tick; it returns to  *)
(* pc = "idle" with its result in loc.ret.                                 *)

initial_orders_per_side == 15

min_orders_per_side == 11

\* Decimal('14'): the steps between min_spread and max_spread
FillSteps == 14

\* random.randint(1, 3): the most orders one maintenance pass cancels
MaxToCancel == 3

\* get_orderbook_status: our bids, our asks as the venue reports them
BookCounts == {0, min_orders_per_side, initial_orders_per_side}

\* max_spread - spread_step * i, spread_step = (max - min) / steps
SpreadDown(lo, hi, steps, i) ==
    LET e == MaxOf(lo.e, hi.e)
        l == Rescale(lo, e).m
        h == Rescale(hi, e).m
    IN  Frac(h * steps - (h - l) * i, steps, e)

\* Decimal(str(random.uniform(min_order, max_order))).quantize(0.0001),
\* then f"{quantity:.4f}": the draws tried are the two ends of the range
FillQuantities(min_order, max_order) ==
    { FormatF(min_order, 4), FormatF(max_order, 4) }

\* Decimal(str(random.uniform(0.95, 1.05))): the draws tried
Jitters == { Dec(95, 2), Dec(105, 2) }

\* max(min_order, min(max_order, quantity))
ClampQuantity(quantity, min_order, max_order) ==
    LET capped == IF DecLess(quantity, max_order) THEN quantity ELSE max_order
    IN  IF DecLess(min_order, capped) THEN capped ELSE min_order

\* an entry of attempts: spread and exact price of the rung, and the price
\* string handed to the venue
MakerAttempt(order_type, spread, price, r) ==
    [order_type |-> order_type, spread |-> spread, price |-> price,
     called |-> r.called,
     formatted_price |-> IF r.called THEN r.call.price ELSE NoText]

\* min_spread_percentage, max_spread_percentage of the maker, one of them
\* with the maximum below the minimum
MakerSpreadRanges ==
    SpreadRanges \cup { [lo |-> Dec(1, 2), hi |-> Dec(6, 3)] }

\* pairs, the prices of the feed (0 is what get_market_price returns on an
\* error) and the configured limits
MakerSetups ==
    { [base |-> "LIBRE", quote |-> "BTC",
       prices |-> { Dec(100, 10), Dec(1000, 10), Dec(0, 0) },
       min_order_value |-> Dec(1, 3), max_order_value |-> Dec(1, 2),
       balances |-> { Dec(1000, 4), Dec(10000, 4) }],
      [base |-> "LIBRE", quote |-> "USDT",
       prices |-> { Dec(5, 2), Dec(4, 3) },
       min_order_value |-> Dec(1, 3), max_order_value |-> Dec(1, 2),
       balances |-> { Dec(1000, 4) }] }

\* the prices the feed of a pair may write to the price file
FeedPrices(base, quote) ==
    UNION { su.prices : su \in { m \in MakerSetups :
                                    m.base = base /\ m.quote = quote } }

MaxOwnOrders == 1

\* read_price then get_market_price: the price of the file; the file
\* missing, not JSON or without "price" gives None, Decimal(str(None))
\* raises and the except clause returns Decimal('0')
get_market_price(file) ==
    IF file.kind = "price" THEN file.price ELSE Dec(0, 0)

\* generate_signal: market_price is never None, so a signal is always made
generate_signal(file, min_spread, max_spread) ==
    [price |-> get_market_price(file), min_spread |-> min_spread,
     max_spread |-> max_spread]

PriceFiles(prices) ==
    { [kind |-> "price", price |-> p] : p \in prices }
    \cup { [kind |-> "missing"], [kind |-> "invalid_json"],
           [kind |-> "no_price"] }

\* the price file as the next tick reads it: as it was or gone; a feed
\* that had stopped may have written any of its prices again
TickPriceFiles(file, base, quote) ==
    IF file.kind = "price" THEN {file, [kind |-> "missing"]}
    ELSE PriceFiles(FeedPrices(base, quote))

\* get_orderbook_status: own bids and asks counted in the book that
\* fetch_order_book returned; a failed fetch returns empty lists, so 0, 0
StatusReplies ==
    { [failed |-> TRUE, our_bids |-> 0, our_asks |-> 0] }
    \cup { [failed |-> FALSE, our_bids |-> b, our_asks |-> a] :
             b \in BookCounts, a \in BookCounts }

\* the cancelorder actions of n dex.cancel_order calls
CancelActions(n) == [k \in 1..n |-> [kind |-> "cancelorder", order |-> k]]

\* the previous tick ended in maintain_orderbook's early return, which
\* found too few orders and cleared orderbook_filled
EndedDepleted(l) ==
    l # NoText /\ l.kind = "maintain_orderbook" /\ l.depleted

\* one iteration of run: generate_signal (kept in signal), then
\* place_orders(signal) up to the call of fill_orderbook_gradually or
\* maintain_orderbook.  found: the own orders cancel_orders gets from its
\* own fetch and cancels.  ledger holds the actions submitted since the
\* tick began.
place_orders ==
    /\ pc = "idle"
    /\ \E status \in StatusReplies,
          file \in TickPriceFiles(price_file, base_symbol, quote_symbol) :
         LET reset  == status.our_bids + status.our_asks
                           < min_orders_per_side * 2
             filled == orderbook_filled /\ ~reset
             lim    == get_order_limits(parameters, base_symbol)
         IN  /\ orderbook_filled' = filled
             /\ \E found \in IF reset THEN 0..MaxOwnOrders ELSE {0} :
                   ledger' = IF reset THEN CancelActions(found) ELSE <<>>
             /\ pc' = IF filled THEN "maintain" ELSE "fill_buy"
             /\ loc' = IF filled
                       THEN [kind |-> "maintain_orderbook", reset |-> reset,
                             fetch_failed |-> status.failed,
                             depleted |-> FALSE]
                       ELSE [kind |-> "fill_orderbook_gradually",
                             reset |-> reset,
                             fetch_failed |-> status.failed,
                             after_depletion |-> EndedDepleted(loc),
                             min_order |-> lim.min_order,
                             max_order |-> lim.max_order,
                             side |-> "buy",
                             i |-> 0, placed_prices |-> {}, ret |-> FALSE]
             /\ price_file' = file
             /\ signal' = generate_signal(file, signal.min_spread,
                                          signal.max_spread)
    /\ attempts' = <<>>
    /\ order' = NoCall
    /\ encoded' = NoText
    /\ UNCHANGED <<venue, reply>>
    /\ UNCHANGED <<self_orders, running, base_symbol, quote_symbol, parameters, balance_response,
                   xfer, result>>

\* one turn of a loop of fill_orderbook_gradually, or the step out of it
FillPlace(side, direction) ==
    /\ loc.i < initial_orders_per_side
    /\ LET spread == IF side = "buy"
                     THEN SpreadDown(signal.min_spread, signal.max_spread,
                                     FillSteps, loc.i)
                     ELSE SpreadUp(signal.min_spread, signal.max_spread,
                                   FillSteps, loc.i)
           price  == QuantizeFrac(PriceAt(signal.price, direction, spread), 10)
       IN  IF price \in loc.placed_prices
           THEN /\ loc' = [loc EXCEPT !.i = @ + 1]
                /\ UNCHANGED <<pc, attempts, order, encoded>>
           ELSE \E quantity \in FillQuantities(loc.min_order, loc.max_order),
                   transfer_ok \in BOOLEAN :
                  LET r == place_single_order("bentester", side, quantity,
                               DecAsFrac(price), base_symbol, quote_symbol,
                               transfer_ok)
                  IN  /\ attempts' = Append(attempts,
                             MakerAttempt(side, spread, DecAsFrac(price), r))
                      /\ order' = r.call
                      /\ encoded' = IF r.called THEN Encode(r.call) ELSE NoText
                      /\ loc' = [loc EXCEPT
                                   !.i = @ + 1,
                                   !.placed_prices = @ \cup {price}]
                      /\ pc' = IF r.success THEN pc ELSE "idle"
    /\ UNCHANGED envVars
    /\ UNCHANGED <<self_orders, running, base_symbol, quote_symbol, parameters, balance_response,
                   signal, xfer, result, ledger, orderbook_filled>>

fill_buy ==
    /\ pc = "fill_buy"
    /\ \/ FillPlace("buy", -1)
       \/ /\ loc.i = initial_orders_per_side
          /\ loc' = [loc EXCEPT !.i = 0, !.placed_prices = {},
                                !.side = "sell"]
          /\ pc' = "fill_sell"
          /\ UNCHANGED envVars
          /\ UNCHANGED <<self_orders, running, base_symbol, quote_symbol, parameters,
                         balance_response, signal, attempts, orderbook_filled>>
          /\ UNCHANGED dexVars

fill_sell ==
    /\ pc = "fill_sell"
    /\ \/ FillPlace("sell", 1)
       \/ /\ loc.i = initial_orders_per_side
          /\ loc' = [loc EXCEPT !.ret = TRUE]
          /\ orderbook_filled' = TRUE
          /\ pc' = "idle"
          /\ UNCHANGED envVars
          /\ UNCHANGED <<self_orders, running, base_symbol, quote_symbol, parameters,
                         balance_response, signal, attempts>>
          /\ UNCHANGED dexVars

\* the own orders that maintain_orderbook may find in its second fetch
\* of the book: none, fewer than num_to_cancel can ask for, or a full side
OwnOrderCounts == {0, 1, 2, initial_orders_per_side * 2}

\* random.sample takes every own order of the book
orders_to_cancelMut(num_to_cancel, our_orders) == our_orders

\* len(random.sample(our_orders, min(num_to_cancel, len(our_orders))))
orders_to_cancel(num_to_cancel, our_orders) ==
    MinOf(num_to_cancel, our_orders)

\* maintain_orderbook(signal) up to the replacement loop: the status
\* check, num_to_cancel = random.randint(1, 3), the second fetch with
\* our_orders own orders, and the cancel loop
maintain_orderbook ==
    /\ pc = "maintain"
    /\ \E status \in StatusReplies, num_to_cancel \in 1..MaxToCancel,
          our_orders \in OwnOrderCounts :
         IF status.our_bids + status.our_asks < min_orders_per_side * 2
         THEN /\ orderbook_filled' = FALSE
              /\ loc' = [kind |-> "maintain_orderbook", reset |-> loc.reset,
                         fetch_failed |-> loc.fetch_failed \/ status.failed,
                         depleted |-> TRUE, ret |-> TRUE]
              /\ pc' = "idle"
              /\ UNCHANGED ledger
         ELSE LET lim   == get_order_limits(parameters, base_symbol)
                  total == get_available_balance(balance_response, base_symbol)
                  per   == PerOrderQuantity(lim.min_order,
                                            QuantizeShareDown(total, 20))
                  n     == orders_to_cancel(num_to_cancel, our_orders)
              IN  /\ loc' = [kind |-> "maintain_orderbook",
                             reset |-> loc.reset,
                             fetch_failed |-> loc.fetch_failed,
                             depleted |-> FALSE,
                             min_order |-> lim.min_order,
                             max_order |-> lim.max_order,
                             total_balance |-> total,
                             per_order_quantity |-> per,
                             our_orders |-> our_orders,
                             cancelled |-> n,
                             to_replace |-> n, ret |-> FALSE]
                  /\ ledger' = ledger \o CancelActions(n)
                  /\ pc' = "maintain_replace"
                  /\ UNCHANGED orderbook_filled
    /\ UNCHANGED envVars
    /\ UNCHANGED <<self_orders, running, base_symbol, quote_symbol, parameters, balance_response,
                   signal, attempts, order, encoded, xfer, result>>

\* one replacement order of maintain_orderbook, or its return
maintain_replace ==
    /\ pc = "maintain_replace"
    /\ IF loc.to_replace > 0
       THEN \E spread \in {signal.min_spread, signal.max_spread},
               order_type \in {"buy", "sell"}, jitter \in Jitters,
               transfer_ok \in BOOLEAN :
              LET direction == IF order_type = "buy" THEN -1 ELSE 1
                  price     == PriceAt(signal.price, direction, DecAsFrac(spread))
                  quantity  == ClampQuantity(
                                   DecMul(loc.per_order_quantity, jitter),
                                   loc.min_order, loc.max_order)
                  r == place_single_order("bentester", order_type,
                           FormatF(quantity, 8), price, base_symbol,
                           quote_symbol, transfer_ok)
              IN  /\ attempts' = Append(attempts,
                         MakerAttempt(order_type, DecAsFrac(spread), price, r))
                  /\ order' = r.call
                  /\ encoded' = IF r.called THEN Encode(r.call) ELSE NoText
                  /\ loc' = [loc EXCEPT !.to_replace = @ - 1]
                  /\ pc' = pc
       ELSE /\ loc' = [loc EXCEPT !.ret = TRUE]
            /\ pc' = "idle"
            /\ UNCHANGED <<attempts, order, encoded>>
    /\ UNCHANGED envVars
    /\ UNCHANGED <<self_orders, running, base_symbol, quote_symbol, parameters, balance_response,
                   signal, xfer, result, ledger, orderbook_filled>>

\* what client.get_currency_balance returns to the maker: a list with the
\* balance, or the str of the real client
MakerBalanceResponses(amounts, base) ==
    { r \in BalanceResponses(amounts, base) :
        r.kind = "str" \/ (r.kind = "list" /\ r.symbol = base) }

InitMaker ==
    /\ pc = "idle"
    /\ \E su \in MakerSetups, sp \in MakerSpreadRanges :
         /\ base_symbol = su.base
         /\ quote_symbol = su.quote
         /\ parameters = [min_order_value |-> su.min_order_value,
                          max_order_value |-> su.max_order_value,
                          num_orders |-> 20]
         /\ balance_response \in MakerBalanceResponses(su.balances, su.base)
         /\ price_file \in PriceFiles(su.prices)
         /\ signal = generate_signal(price_file, sp.lo, sp.hi)
    /\ loc = NoText
    /\ attempts = <<>>
    /\ order = NoCall
    /\ encoded = NoText
    /\ xfer = NoText
    /\ result = NoText
    /\ ledger = <<>>
    /\ orderbook_filled = FALSE
    /\ venue = <<>>
    /\ reply = NoText
    /\ running = TRUE
    /\ self_orders = {}

NextMaker ==
    place_orders \/ fill_buy \/ fill_sell \/ maintain_orderbook
    \/ maintain_replace

SpecMaker == InitMaker /\ [][NextMaker]_vars

-----------------------------------------------------------------------------
(* A caller of DexClient.place_order or of LibreClient.transfer: the call  *)
(* is drawn at the start and made in one step; the state keeps the call,   *)
(* what it computed, what it returned and what was sent to the chain.      *)

MaxQtyK == 2

MaxPriceK == 2

Pairs == { [base |-> "LIBRE", quote |-> "BTC"],
           [base |-> "BTC",   quote |-> "USDT"],
           [base |-> "BTC",   quote |-> "LIBRE"],
           [base |-> "ETH",   quote |-> "USDT"] }

\* quantity strings as the strategies format them (4 or 8 places)
QuantityStrings == { Dec(k * 12500, e) : k \in 0..MaxQtyK, e \in {4, 8} }

\* price strings as the strategies format them (2, 8 or 10 places)
PriceStrings == { Dec(k * 123, e) : k \in 0..MaxPriceK, e \in {2, 8, 10} }

PlaceOrderCalls ==
    { [kind |-> "place_order", account |-> a, order_type |-> ot,
       quantity |-> q, price |-> p,
       quote_symbol |-> pr.quote, base_symbol |-> pr.base] :
      a \in Accounts, ot \in {"buy", "sell"}, q \in QuantityStrings,
      p \in PriceStrings, pr \in Pairs }

\* transfer as examples/ and tests/ call it: "amount SYMBOL", memo, and the
\* contract left out or given
TransferCalls ==
    { [from_account |-> a, to_account |-> "dex.libre", quantity |-> q,
       memo |-> NameText(""), contract |-> c] :
      a \in Accounts,
      q \in { <<Dec(k * 12500, 4), sy>> : k \in 1..MaxQtyK,
                                          sy \in {"LIBRE", "BTC", "UNKNOWN"} }
            \cup { <<"invalid">> },
      c \in {NoText, NameText("usdt.libre")} }

InitDex ==
    /\ pc \in {"place_order", "transfer"}
    /\ base_symbol = "BTC"
    /\ quote_symbol = "USDT"
    /\ IF pc = "place_order"
       THEN order \in PlaceOrderCalls /\ xfer = NoText
       ELSE order = NoCall /\ xfer \in TransferCalls
    /\ encoded = NoText
    /\ result = NoText
    /\ ledger = <<>>
    /\ parameters = NoText
    /\ balance_response = NoText
    /\ signal = NoText
    /\ loc = NoText
    /\ attempts = <<>>
    /\ orderbook_filled = FALSE
    /\ price_file = NoText
    /\ venue = <<>>
    /\ reply = NoText
    /\ running = TRUE
    /\ self_orders = {}

\* DexClient.place_order(account, order_type, quantity, price, quote, base)
DexPlaceOrder ==
    /\ pc = "place_order"
    /\ \E has_key \in BOOLEAN, reply_ \in ChainReplies :
         LET enc == Encode(order)
             t   == TransferCall(order, enc)
             r   == PlaceOrderResult(order, has_key, reply_)
         IN  /\ encoded' = enc
             /\ xfer' = IF enc.valid THEN t ELSE NoText
             /\ result' = r
             /\ reply' = IF r.sent THEN [kind |-> reply_] ELSE NoText
             /\ ledger' = IF r.sent THEN Append(ledger, TransferLocal(t).request)
                          ELSE ledger
    /\ pc' = "returned"
    /\ UNCHANGED <<self_orders, running, base_symbol, quote_symbol, order, price_file, venue>>
    /\ UNCHANGED stratVars

\* LibreClient.transfer(from_account, to_account, quantity, memo, contract)
ClientTransfer ==
    /\ pc = "transfer"
    /\ \E has_key \in BOOLEAN, reply_ \in ChainReplies :
         LET r == TransferResult(xfer, has_key, reply_)
         IN  /\ result' = r
             /\ reply' = IF r.sent THEN [kind |-> reply_] ELSE NoText
             /\ ledger' = IF r.sent
                          THEN Append(ledger, TransferLocal(xfer).request)
                          ELSE ledger
    /\ pc' = "returned"
    /\ UNCHANGED <<self_orders, running, base_symbol, quote_symbol, order, encoded, xfer, price_file,
                   venue>>
    /\ UNCHANGED stratVars

NextDex == DexPlaceOrder \/ ClientTransfer

SpecDex == InitDex /\ [][NextDex]_vars

-----------------------------------------------------------------------------
(* DexClient.fetch_order_book and DexClient.cancel_order (dex.py), with
   LibreClient.get_table_rows and LibreClient.execute_action (client.py).
   A row of the orderbook2 table is a JSON object: `has` is the set of its
   keys, a price is a number or a text that float() refuses, baseAsset is
   held as the tokens str.split() gives. *)

MaxRows == 3

\* limit=1000 of the single get_table_rows request
fetch_limit == 1000

RowFields == {"identifier", "account", "price", "baseAsset", "type"}

Num(m, e) == [num |-> TRUE, m |-> m, e |-> e]

NotANumber == [num |-> FALSE, m |-> 0, e |-> 0]

Row(has, type, price, baseAsset) ==
    [has |-> has, identifier |-> 0, account |-> "bentester",
     price |-> price, baseAsset |-> baseAsset, type |-> type]

OneLibre == <<"1.00000000", "LIBRE">>

\* the rows the venue may hold: bids and asks at equal and different
\* prices, written differently ("0.1", "0.10"), rows without a type or
\* with another type, rows without a required field or with an empty
\* baseAsset, and a row whose price is not a number
RowShapes ==
    { Row(RowFields, "buy",  Num(1, 1),  OneLibre),
      Row(RowFields, "buy",  Num(10, 2), OneLibre),
      Row(RowFields, "buy",  Num(2, 1),  OneLibre),
      Row(RowFields, "sell", Num(2, 1),  OneLibre),
      Row(RowFields, "sell", Num(20, 2), OneLibre),
      Row(RowFields, "sell", Num(1, 1),  OneLibre),
      Row(RowFields \ {"type"}, "", Num(1, 1), OneLibre),
      Row(RowFields, "BUY",  Num(1, 1),  OneLibre),
      Row(RowFields \ {"price"}, "buy", Num(0, 0), OneLibre),
      Row(RowFields, "buy",  Num(3, 1),  <<>>),
      Row(RowFields \ {"baseAsset"}, "sell", Num(3, 1), <<>>),
      Row(RowFields \ {"account"}, "sell", Num(1, 1), OneLibre),
      Row(RowFields \ {"identifier"}, "buy", Num(3, 1), OneLibre),
      Row(RowFields, "buy",  NotANumber, OneLibre) }

\* the tables of at most MaxRows rows over the given shapes; the table is
\* read in the order of its primary key, the identifier
Venues(shapes) ==
    UNION { { [k \in 1..n |-> [f[k] EXCEPT !.identifier = k]] :
                f \in [1..n -> shapes] } : n \in 0..MaxRows }

\* LibreClient.get_table_rows: one POST; the node answers with the first
\* rows of the table, at most `limit_` and at most its own page (a node
\* ends a table walk at its own limits and sets `more`), and a
\* `more` flag that the method drops; any exception becomes success False
get_table_rows(table, limit_, node_page, answer) ==
    IF answer = "raise"
    THEN [success |-> FALSE, rows |-> <<>>,
          error |-> "Failed to get table rows"]
    ELSE [success |-> TRUE,
          rows |-> SubSeq(table, 1,
                          MinOf(MinOf(limit_, node_page), Len(table))),
          error |-> ""]

\* the body of the per-row try block completes (no KeyError, IndexError)
decodes(row) ==
    /\ "baseAsset" \in row.has
    /\ Len(row.baseAsset) > 0
    /\ {"identifier", "account", "price"} \subseteq row.has

\* the order dict built from a row
decode_row(row) ==
    [identifier |-> ToString(row.identifier),
     account    |-> row.account,
     price      |-> row.price,
     quantity   |-> row.baseAsset[1],
     type       |-> IF "type" \in row.has THEN row.type ELSE "sell"]

RECURSIVE decode_rows(_)
\* the orders appended by the decoding loop, in the order of the rows
decode_rows(rows) ==
    IF rows = <<>> THEN <<>>
    ELSE IF decodes(Head(rows))
    THEN <<decode_row(Head(rows))>> \o decode_rows(Tail(rows))
    ELSE decode_rows(Tail(rows))

IsBuy(o) == o.type = "buy"

IsNotBuy(o) == o.type # "buy"

\* an order goes before another one as soon as its key is not behind
BeforeMut(x, y, reverse) ==
    IF reverse THEN ~DecLess(x.price, y.price)
    ELSE DecLess(x.price, y.price)

\* list.sort(key=float(price), reverse=...): an order goes before another
\* one only when its key is strictly ahead (the sort is stable, also
\* with reverse=True)
Before(x, y, reverse) ==
    IF reverse THEN DecLess(y.price, x.price)
    ELSE DecLess(x.price, y.price)

RECURSIVE InsertOrder(_, _, _)
InsertOrder(x, sorted, reverse) ==
    IF sorted = <<>> THEN <<x>>
    ELSE IF Before(x, Head(sorted), reverse) THEN <<x>> \o sorted
    ELSE <<Head(sorted)>> \o InsertOrder(x, Tail(sorted), reverse)

RECURSIVE SortOrders(_, _)
SortOrders(orders, reverse) ==
    IF orders = <<>> THEN <<>>
    ELSE InsertOrder(orders[Len(orders)],
                     SortOrders(SubSeq(orders, 1, Len(orders) - 1), reverse),
                     reverse)

\* float(x["price"]) raises for some order of the list
SortRaises(orders) == \E k \in 1..Len(orders) : ~orders[k].price.num

\* the dict returned by fetch_order_book for a get_table_rows response;
\* `keys` are the keys of the dict
fetch_order_book_result(response) ==
    IF ~response.success
    THEN [keys |-> {"bids", "offers", "error"}, bids |-> <<>>,
          offers |-> <<>>, error |-> response.error]
    ELSE LET orders == decode_rows(response.rows)
             bids   == SelectSeq(orders, IsBuy)
             offers == SelectSeq(orders, IsNotBuy)
         IN  IF SortRaises(bids) \/ SortRaises(offers)
             THEN [keys |-> {"bids", "offers"}, bids |-> <<>>,
                   offers |-> <<>>, error |-> ""]
             ELSE [keys |-> {"bids", "offers"},
                   bids |-> SortOrders(bids, TRUE),
                   offers |-> SortOrders(offers, FALSE), error |-> ""]

\* what may come of the cancelorder transaction: the chain accepts it
\* (transaction id), answers without a transaction id or with an empty
\* one, refuses it with an exception, or cannot be reached
CancelReplies ==
    {"tx_id", "no_tx_id", "empty_tx_id", "raise_rejected", "raise_transport"}

\* the response dict of LibreClient.execute_action
execute_action(has_key, answer) ==
    IF answer = "raise_transport"
    THEN [success |-> FALSE, has_data |-> FALSE, transaction_id |-> "",
          error |-> "connection error", sent |-> FALSE]
    ELSE IF ~has_key
    THEN [success |-> FALSE, has_data |-> FALSE, transaction_id |-> "",
          error |-> "No private key found", sent |-> FALSE]
    ELSE IF answer = "raise_rejected"
    THEN [success |-> FALSE, has_data |-> FALSE, transaction_id |-> "",
          error |-> "assertion failure", sent |-> TRUE]
    ELSE [success |-> TRUE, has_data |-> TRUE, transaction_id |-> answer,
          error |-> "", sent |-> TRUE]

\* the dict returned by cancel_order for an execute_action response
cancel_order_result(r) ==
    IF r.success /\ r.has_data /\ r.transaction_id = "tx_id"
    THEN [success |-> TRUE, error |-> ""]
    ELSE IF ~r.has_data \/ r.transaction_id = "no_tx_id"
    THEN [success |-> FALSE, error |-> "Transaction rejected"]
    ELSE [success |-> FALSE,
          error |-> IF r.success THEN "Unknown error" ELSE r.error]

InBook(table, order_id) ==
    \E k \in 1..Len(table) :
        "identifier" \in table[k].has /\ table[k].identifier = order_id

RECURSIVE WithoutOrder(_, _)
WithoutOrder(table, order_id) ==
    IF table = <<>> THEN <<>>
    ELSE IF Head(table).identifier = order_id
    THEN WithoutOrder(Tail(table), order_id)
    ELSE <<Head(table)>> \o WithoutOrder(Tail(table), order_id)

\* the tables a cancel is tried against hold well-formed rows only
CancelShapes ==
    { Row(RowFields, "buy",  Num(1, 1), OneLibre),
      Row(RowFields, "sell", Num(2, 1), OneLibre) }

InitBook ==
    /\ pc \in {"fetch_order_book", "cancel_order"}
    /\ base_symbol = "LIBRE"
    /\ quote_symbol = "BTC"
    /\ IF pc = "fetch_order_book"
       THEN /\ venue \in Venues(RowShapes)
            /\ order = [kind |-> "fetch_order_book"]
       ELSE /\ venue \in Venues(CancelShapes)
            /\ order \in { [kind |-> "cancel_order", account |-> "bentester",
                            order_id |-> i] : i \in 1..(MaxRows + 1) }
    /\ encoded = NoText
    /\ xfer = NoText
    /\ result = NoText
    /\ ledger = <<>>
    /\ parameters = NoText
    /\ balance_response = NoText
    /\ signal = NoText
    /\ loc = NoText
    /\ attempts = <<>>
    /\ orderbook_filled = FALSE
    /\ price_file = NoText
    /\ reply = NoText
    /\ running = TRUE
    /\ self_orders = {}

\* DexClient.fetch_order_book(quote_symbol, base_symbol)
fetch_order_book ==
    /\ pc = "fetch_order_book"
    /\ \E answer \in {"rows", "raise"}, node_page \in 1..MaxRows :
         LET response == get_table_rows(venue, fetch_limit, node_page, answer)
         IN  /\ reply' = [kind |-> answer, rows |-> response.rows,
                          more |-> /\ response.success
                                   /\ Len(response.rows) < Len(venue)]
             /\ result' = fetch_order_book_result(response)
    /\ pc' = "returned"
    /\ UNCHANGED <<self_orders, running, base_symbol, quote_symbol, order, encoded, xfer, ledger,
                   price_file, venue>>
    /\ UNCHANGED stratVars

\* DexClient.cancel_order(account, order_id, quote_symbol, base_symbol)
cancel_order ==
    /\ pc = "cancel_order"
    /\ \E has_key \in BOOLEAN, answer \in CancelReplies :
         LET r == execute_action(has_key, answer) IN
         /\ reply' = IF r.sent \/ answer = "raise_transport"
                     THEN [kind |-> answer, rows |-> <<>>, more |-> FALSE]
                     ELSE NoText
         /\ result' = cancel_order_result(r)
         /\ ledger' = IF r.sent
                      THEN Append(ledger, [kind |-> "cancelorder",
                                           order |-> order.order_id])
                      ELSE ledger
         /\ venue' = IF r.sent /\ answer = "tx_id"
                     THEN WithoutOrder(venue, order.order_id)
                     ELSE venue
    /\ pc' = "returned"
    /\ UNCHANGED <<self_orders, running, base_symbol, quote_symbol, order, encoded, xfer,
                   price_file>>
    /\ UNCHANGED stratVars

NextBook == fetch_order_book \/ cancel_order

SpecBook == InitBook /\ [][NextBook]_vars

-----------------------------------------------------------------------------
(* The other callers of _place_single_order that vary a quantity at random:
   BaseStrategy.place_replacement_orders, MarketRateStrategy.place_orders
   and fill_orderbook_gradually of order_book_maker.py. *)

\* the most placement attempts of one fill pass that are followed
MaxFillAttempts == 24

\* total_orders = 22 of order_book_maker.py
old_total_orders == 22

\* Decimal(min_order) of the float of DEFAULT_COIN_LIMITS is above the
\* decimal written in the table for 0.0001 (BTC) and equal to it for the
\* other symbols
FloatIsAbove(symbol) == symbol = "BTC"

\* _calculate_order_quantity(total_balance): a tenth of the balance,
\* rounded down to the precision of the pair, or 0 below the default
\* minimum of the base symbol
calculate_order_quantity(total_balance, base, quote) ==
    LET min_order      == DEFAULT_COIN_LIMITS(base).min_order_value
        precision      == get_precision(base, quote)
        order_quantity == Dec(Rescale(total_balance, precision).m \div 10,
                              precision)
    IN  IF \/ DecLess(order_quantity, min_order)
           \/ FloatIsAbove(base) /\ DecSame(order_quantity, min_order)
        THEN Dec(0, 0)
        ELSE order_quantity

RECURSIVE FirstDigit(_)
\* the first character of the decimal text of a natural number
FirstDigit(n) == IF n < 10 THEN n ELSE FirstDigit(n \div 10)

\* BaseStrategy.get_currency_balance(symbol): balances[0].split()[0] of a
\* list; of the str of the real client balances[0] is its first character;
\* 0 for an empty answer or an exception
get_currency_balance(resp) ==
    IF resp.kind = "list" THEN resp.amount
    ELSE IF resp.kind = "str"
    THEN Dec(FirstDigit(resp.amount.m \div Pow10(resp.amount.e)), 0)
    ELSE Dec(0, 0)

\* what client.get_currency_balance returns to these callers
CallerBalanceResponses(amounts, base) ==
    { [kind |-> k, amount |-> a, symbol |-> base] :
        k \in {"list", "str"}, a \in amounts }
    \cup { [kind |-> "empty"], [kind |-> "raise"] }

\* the pair, the prices of the signal and the balances tried: below and
\* at ten default minimum orders, just above, and above ten maximum orders
CallerSetups ==
    { [base |-> "BTC", quote |-> "USDT",
       prices |-> { Dec(200, 2), Dec(0, 0) },
       balances |-> { Dec(50000, 8), Dec(100000, 8), Dec(105000, 8),
                      Dec(200000, 8), Dec(2000000, 8) }] }

InitCallers ==
    /\ pc \in {"place_replacement_orders", "market_rate_place_orders",
               "old_fill"}
    /\ \E su \in CallerSetups, sp \in SpreadRanges :
         /\ base_symbol = su.base
         /\ quote_symbol = su.quote
         /\ parameters = [min_order_value |-> NoText,
                          max_order_value |-> NoText, num_orders |-> 20]
         /\ balance_response \in CallerBalanceResponses(su.balances, su.base)
         /\ \E price \in su.prices :
              signal = [price |-> price, min_spread |-> sp.lo,
                        max_spread |-> sp.hi]
    /\ loc = IF pc = "old_fill"
             THEN [kind |-> "fill_orderbook_gradually", orders_placed |-> 0,
                   attempted |-> 0, num_orders |-> 0, step |-> 0,
                   ret |-> FALSE]
             ELSE NoText
    /\ attempts = <<>>
    /\ order = NoCall
    /\ encoded = NoText
    /\ xfer = NoText
    /\ result = NoText
    /\ ledger = <<>>
    /\ orderbook_filled = FALSE
    /\ price_file = NoText
    /\ venue = <<>>
    /\ reply = NoText
    /\ running = TRUE
    /\ self_orders = {}

\* BaseStrategy.place_replacement_orders(signal)
place_replacement_orders ==
    /\ pc = "place_replacement_orders"
    /\ IF signal.price.m = 0 \/ signal.min_spread.m = 0
          \/ signal.max_spread.m = 0
       THEN /\ result' = [success |-> FALSE]
            /\ UNCHANGED <<attempts, order, encoded>>
       ELSE \E order_type \in {"buy", "sell"},
               spread \in {signal.min_spread, signal.max_spread},
               jitter \in Jitters, transfer_ok \in BOOLEAN :
              LET available == get_available_balance(balance_response,
                                                     base_symbol)
                  per       == calculate_order_quantity(available,
                                   base_symbol, quote_symbol)
                  direction == IF order_type = "sell" THEN 1 ELSE -1
                  price     == PriceAt(signal.price, direction,
                                       DecAsFrac(spread))
                  quantity  == FormatF(DecMul(per, jitter),
                                   get_precision(base_symbol, quote_symbol))
                  r == place_single_order("bentester", order_type, quantity,
                           price, base_symbol, quote_symbol, transfer_ok)
              IN  /\ attempts' = <<Attempt(order_type, quantity,
                                           DecAsFrac(spread), price, r)>>
                  /\ order' = r.call
                  /\ encoded' = IF r.called THEN Encode(r.call) ELSE NoText
                  /\ result' = [success |-> r.success]
    /\ pc' = "returned"
    /\ UNCHANGED envVars
    /\ UNCHANGED <<self_orders, running, base_symbol, quote_symbol, parameters, balance_response,
                   signal, loc, orderbook_filled, xfer, ledger>>

\* MarketRateStrategy.place_orders(signal): a buy and a sell order of the
\* same quantity
market_rate_place_orders ==
    /\ pc = "market_rate_place_orders"
    /\ \E buy_spread \in {signal.min_spread, signal.max_spread},
          sell_spread \in {signal.min_spread, signal.max_spread},
          jitter \in Jitters, buy_ok \in BOOLEAN, sell_ok \in BOOLEAN :
         LET total      == get_currency_balance(balance_response)
             per        == QuantizeShareDown(total, 4)
             buy_price  == PriceAt(signal.price, -1, DecAsFrac(buy_spread))
             sell_price == PriceAt(signal.price, 1, DecAsFrac(sell_spread))
             quantity   == FormatF(DecMul(per, jitter), 8)
             b == place_single_order("bentester", "buy", quantity, buy_price,
                      base_symbol, quote_symbol, buy_ok)
             a == place_single_order("bentester", "sell", quantity,
                      sell_price, base_symbol, quote_symbol, sell_ok)
         IN  /\ attempts' = <<Attempt("buy", quantity, DecAsFrac(buy_spread),
                                      buy_price, b),
                              Attempt("sell", quantity,
                                      DecAsFrac(sell_spread), sell_price, a)>>
             /\ order' = a.call
             /\ encoded' = IF a.called THEN Encode(a.call) ELSE NoText
             /\ result' = [success |-> b.success /\ a.success]
    /\ pc' = "returned"
    /\ UNCHANGED envVars
    /\ UNCHANGED <<self_orders, running, base_symbol, quote_symbol, parameters, balance_response,
                   signal, loc, orderbook_filled, xfer, ledger>>

\* fill_orderbook_gradually of order_book_maker.py, one step of its loops:
\* the head of the while loop (num_orders drawn, the spread of the turn
\* fixed), or one turn of the for loop.  attempted counts the calls of
\* _place_single_order.
old_fill ==
    /\ pc = "old_fill"
    /\ IF loc.num_orders = 0
       THEN IF loc.orders_placed >= old_total_orders
            THEN /\ loc' = [loc EXCEPT !.ret = TRUE]
                 /\ result' = [success |-> TRUE]
                 /\ pc' = "returned"
                 /\ UNCHANGED <<order, encoded>>
            ELSE /\ \E num_orders \in 1..2 :
                      loc' = [loc EXCEPT !.num_orders = num_orders,
                                         !.step = loc.orders_placed \div 2]
                 /\ UNCHANGED <<pc, result, order, encoded>>
       ELSE IF loc.orders_placed >= old_total_orders
            THEN /\ loc' = [loc EXCEPT !.num_orders = 0]
                 /\ UNCHANGED <<pc, result, order, encoded>>
            ELSE /\ loc.attempted < MaxFillAttempts
                 /\ \E jitter \in Jitters, transfer_ok \in BOOLEAN :
                      LET order_type == IF loc.orders_placed % 2 = 0
                                        THEN "buy" ELSE "sell"
                          direction  == IF order_type = "buy" THEN -1 ELSE 1
                          spread     == SpreadUp(signal.min_spread,
                                            signal.max_spread,
                                            old_total_orders \div 2, loc.step)
                          price      == PriceAt(signal.price, direction,
                                                spread)
                          total      == get_available_balance(
                                            balance_response, base_symbol)
                          quantity   == FormatF(
                                            DecMul(QuantizeShareDown(total, 20),
                                                   jitter), 8)
                          r == place_single_order("bentester", order_type,
                                   quantity, price, base_symbol,
                                   quote_symbol, transfer_ok)
                      IN  /\ loc' = [loc EXCEPT
                                 !.orders_placed =
                                     IF r.success THEN @ + 1 ELSE @,
                                 !.attempted = @ + 1,
                                 !.num_orders = @ - 1]
                          /\ order' = r.call
                          /\ encoded' = IF r.called THEN Encode(r.call)
                                        ELSE NoText
                 /\ UNCHANGED <<pc, result>>
    /\ UNCHANGED envVars
    /\ UNCHANGED <<self_orders, running, base_symbol, quote_symbol, parameters, balance_response,
                   signal, attempts, orderbook_filled, xfer, ledger>>

NextCallers ==
    place_replacement_orders \/ market_rate_place_orders \/ old_fill

SpecCallers == InitCallers /\ [][NextCallers]_vars

-----------------------------------------------------------------------------
(* BaseStrategy.run and cleanup: the loop of ticks, what ends it, and the
   cancel_orders pass that cleanup makes.  Of a tick, run sees only
   whether it raised; the orders a tick cancels and places are those of
   place_orders above, and here they show as the book the tick leaves. *)

Strategies == {"OrderBookMakerStrategy", "OrderBookFillerStrategy"}

\* the books cleanup may find: own bids and asks, and another account's
RunShapes ==
    { Row(RowFields, "buy",  Num(1, 1), OneLibre),
      Row(RowFields, "sell", Num(2, 1), OneLibre),
      [Row(RowFields, "sell", Num(3, 1), OneLibre)
          EXCEPT !.account = "otheraccount"] }

\* order["account"] == self.account
IsOurs(o) == o.account \in Accounts

\* generate_signal of OrderBookFillerStrategy: Decimal(str(read_price(..)))
\* outside any try block; read_price gives None for a missing or broken
\* file or one without "price", and Decimal("None") raises
filler_generate_signal(file, min_spread, max_spread) ==
    IF file.kind = "price"
    THEN [raised |-> FALSE,
          signal |-> [price |-> file.price, min_spread |-> min_spread,
                      max_spread |-> max_spread]]
    ELSE [raised |-> TRUE, signal |-> NoText]

\* self.generate_signal() as run calls it
run_generate_signal(self, file, min_spread, max_spread) ==
    IF self = "OrderBookFillerStrategy"
    THEN filler_generate_signal(file, min_spread, max_spread)
    ELSE [raised |-> FALSE,
          signal |-> generate_signal(file, min_spread, max_spread)]

RECURSIVE cancel_loop(_, _)
\* the loop of cancel_orders over our_orders: it breaks at the first
\* order it reaches with self.running false, and calls dex.cancel_order
\* for an order otherwise; the identifiers of the calls, in order
cancel_loop(our_orders, is_running) ==
    IF our_orders = <<>> \/ ~is_running THEN <<>>
    ELSE <<Head(our_orders).identifier>>
         \o cancel_loop(Tail(our_orders), is_running)

RECURSIVE WithoutCancelled(_, _)
\* the table after the chain removed the orders of the accepted cancels
WithoutCancelled(table, ids) ==
    IF table = <<>> THEN <<>>
    ELSE IF ToString(Head(table).identifier) \in ids
    THEN WithoutCancelled(Tail(table), ids)
    ELSE <<Head(table)>> \o WithoutCancelled(Tail(table), ids)

InitRun ==
    /\ pc = "run"
    /\ base_symbol = "LIBRE"
    /\ quote_symbol = "BTC"
    /\ parameters = [min_spread_percentage |-> Dec(1, 2),
                     max_spread_percentage |-> Dec(5, 2)]
    /\ \E self \in Strategies :
         loc = [kind |-> "run", self |-> self, stopped_by |-> "none"]
    /\ price_file \in PriceFiles(FeedPrices(base_symbol, quote_symbol))
    /\ venue \in Venues(RunShapes)
    /\ balance_response = NoText
    /\ signal = NoText
    /\ attempts = <<>>
    /\ order = NoCall
    /\ encoded = NoText
    /\ xfer = NoText
    /\ result = NoText
    /\ ledger = <<>>
    /\ orderbook_filled = FALSE
    /\ reply = NoText
    /\ running = TRUE
    /\ self_orders = {}

\* one iteration of `while self.running`: generate_signal, place_orders,
\* sleep.  An exception of generate_signal leaves the loop through
\* `except Exception` and reaches the finally clause.
run ==
    /\ pc = "run"
    /\ running
    /\ \E file \in TickPriceFiles(price_file, base_symbol, quote_symbol),
          book \in Venues(RunShapes) :
         LET s == run_generate_signal(loc.self, file,
                                      parameters.min_spread_percentage,
                                      parameters.max_spread_percentage)
         IN  /\ price_file' = file
             /\ signal' = s.signal
             /\ IF s.raised
                THEN /\ pc' = "cleanup"
                     /\ loc' = [loc EXCEPT !.stopped_by = "Exception"]
                     /\ venue' = venue
                ELSE /\ pc' = "run"
                     /\ loc' = loc
                     /\ venue' = book
    /\ UNCHANGED <<self_orders, running, base_symbol, quote_symbol, parameters,
                   balance_response, attempts, orderbook_filled, reply>>
    /\ UNCHANGED dexVars

\* the operator stops the process: KeyboardInterrupt is raised in the
\* loop, `except KeyboardInterrupt` logs it and the finally clause follows
KeyboardInterrupt ==
    /\ pc = "run"
    /\ pc' = "cleanup"
    /\ loc' = [loc EXCEPT !.stopped_by = "KeyboardInterrupt"]
    /\ UNCHANGED <<self_orders, running, base_symbol, quote_symbol, parameters,
                   balance_response, signal, attempts, orderbook_filled>>
    /\ UNCHANGED envVars
    /\ UNCHANGED dexVars

\* cleanup: self.running = False, then cancel_orders(): one fetch of the
\* book, the own orders of its bids and then of its offers, the loop over
\* them, and the return to run, which ends
cleanup ==
    /\ pc = "cleanup"
    /\ running' = FALSE
    /\ \E answer \in {"rows", "raise"}, node_page \in 1..MaxRows,
          replies \in [1..MaxRows -> {"tx_id", "raise_rejected"}] :
         LET response == get_table_rows(venue, fetch_limit, node_page,
                                        answer)
             order_book == fetch_order_book_result(response)
             our_orders == SelectSeq(order_book.bids, IsOurs)
                           \o SelectSeq(order_book.offers, IsOurs)
             calls == cancel_loop(our_orders, running')
             results == [k \in 1..Len(calls) |->
                           cancel_order_result(
                               execute_action(TRUE, replies[k]))]
             done == { calls[k] : k \in { j \in 1..Len(calls) :
                                            results[j].success } }
         IN  /\ loc' = [kind |-> "cancel_orders", self |-> loc.self,
                        stopped_by |-> loc.stopped_by,
                        our_orders |-> [k \in 1..Len(our_orders) |->
                                          our_orders[k].identifier],
                        cancel_calls |-> calls,
                        successful |-> Cardinality(done),
                        failed |-> Len(calls) - Cardinality(done)]
             /\ reply' = [kind |-> answer, rows |-> response.rows,
                          more |-> /\ response.success
                                   /\ Len(response.rows) < Len(venue)]
             /\ ledger' = ledger \o [k \in 1..Len(calls) |->
                                       [kind |-> "cancelorder",
                                        order |-> calls[k]]]
             /\ venue' = WithoutCancelled(venue, done)
    /\ pc' = "exited"
    /\ UNCHANGED <<self_orders, base_symbol, quote_symbol, parameters, balance_response,
                   signal, attempts, orderbook_filled, price_file, order,
                   encoded, xfer, result>>

NextRun == run \/ KeyboardInterrupt \/ cleanup

SpecRun == InitRun /\ [][NextRun]_vars

-----------------------------------------------------------------------------
(* cancel_orders, the cancel-all pass, of BaseStrategy and of
   RandomWalkStrategy, which overrides it. *)

RECURSIVE random_walk_cancel_loop(_, _)
\* the two loops of RandomWalkStrategy.cancel_orders, over our_bids and
\* then our_offers: dex.cancel_order for each order, and `return False`
\* at the first result without success; the identifiers of the calls
random_walk_cancel_loop(our_orders, results) ==
    IF our_orders = <<>> THEN <<>>
    ELSE IF ~Head(results).success THEN <<Head(our_orders).identifier>>
    ELSE <<Head(our_orders).identifier>>
         \o random_walk_cancel_loop(Tail(our_orders), Tail(results))

\* the own orders of a fetched book, bids first
our_orders_of(order_book) ==
    SelectSeq(order_book.bids, IsOurs) \o SelectSeq(order_book.offers, IsOurs)

\* the results of the dex.cancel_order calls, by position of the call
CancelResults(replies) ==
    [k \in 1..MaxRows |->
        cancel_order_result(execute_action(TRUE, replies[k]))]

InitCancelAll ==
    /\ pc \in {"cancel_orders", "random_walk_cancel_orders"}
    /\ base_symbol = "LIBRE"
    /\ quote_symbol = "BTC"
    /\ venue \in Venues(RunShapes)
    /\ running \in IF pc = "cancel_orders" THEN BOOLEAN ELSE {TRUE}
    /\ self_orders = {}
    /\ loc = NoText
    /\ parameters = NoText
    /\ balance_response = NoText
    /\ signal = NoText
    /\ attempts = <<>>
    /\ order = NoCall
    /\ encoded = NoText
    /\ xfer = NoText
    /\ result = NoText
    /\ ledger = <<>>
    /\ orderbook_filled = FALSE
    /\ price_file = NoText
    /\ reply = NoText

\* what a pass leaves: the calls made, the actions sent, the table
CancelPass(self, response, our_orders, calls, results, ret) ==
    LET done == { calls[k] : k \in { j \in 1..Len(calls) :
                                       results[j].success } }
    IN  /\ loc' = [kind |-> "cancel_orders", self |-> self,
                   our_orders |-> [k \in 1..Len(our_orders) |->
                                     our_orders[k].identifier],
                   cancel_calls |-> calls,
                   successful |-> Cardinality(done), ret |-> ret]
        /\ reply' = [kind |-> IF response.success THEN "rows" ELSE "raise",
                     rows |-> response.rows,
                     more |-> /\ response.success
                              /\ Len(response.rows) < Len(venue)]
        /\ ledger' = ledger \o [k \in 1..Len(calls) |->
                                  [kind |-> "cancelorder",
                                   order |-> calls[k]]]
        /\ venue' = WithoutCancelled(venue, done)

\* BaseStrategy.cancel_orders
cancel_orders ==
    /\ pc = "cancel_orders"
    /\ \E answer \in {"rows", "raise"}, node_page \in 1..MaxRows,
          replies \in [1..MaxRows -> {"tx_id", "raise_rejected"}] :
         LET response == get_table_rows(venue, fetch_limit, node_page,
                                        answer)
             our_orders == our_orders_of(fetch_order_book_result(response))
             calls == cancel_loop(our_orders, running)
             results == CancelResults(replies)
         IN  CancelPass("BaseStrategy", response, our_orders, calls, results,
                        \/ our_orders = <<>>
                        \/ \E k \in 1..Len(calls) : results[k].success)
    /\ pc' = "returned"
    /\ UNCHANGED <<self_orders, running, base_symbol, quote_symbol, parameters,
                   balance_response, signal, attempts, orderbook_filled,
                   price_file, order, encoded, xfer, result>>

\* RandomWalkStrategy.cancel_orders
random_walk_cancel_orders ==
    /\ pc = "random_walk_cancel_orders"
    /\ \E answer \in {"rows", "raise"}, node_page \in 1..MaxRows,
          replies \in [1..MaxRows -> {"tx_id", "raise_rejected"}] :
         LET response == get_table_rows(venue, fetch_limit, node_page,
                                        answer)
             our_orders == our_orders_of(fetch_order_book_result(response))
             results == CancelResults(replies)
             calls == random_walk_cancel_loop(our_orders, results)
         IN  CancelPass("RandomWalkStrategy", response, our_orders, calls,
                        results,
                        \A k \in 1..Len(calls) : results[k].success)
    /\ pc' = "returned"
    /\ UNCHANGED <<self_orders, running, base_symbol, quote_symbol, parameters,
                   balance_response, signal, attempts, orderbook_filled,
                   price_file, order, encoded, xfer, result>>

NextCancelAll == cancel_orders \/ random_walk_cancel_orders

SpecCancelAll == InitCancelAll /\ [][NextCancelAll]_vars

-----------------------------------------------------------------------------
(* OrderBookFillerStrategy of orderbookfiller.py, the top-up strategy: one
   iteration of the `while True` loop of run, place_buy_orders and
   place_sell_orders, place_order.  The book is also written by others:
   between two ticks an order may be filled. *)

\* get_fixed_price and get_binance_price: Decimal('95382.75')
filler_market_price == Dec(9538275, 2)

\* self.price_threshold = Decimal('0.01')
price_threshold == Dec(1, 2)

SomeBtc == <<"0.00100000", "BTC">>

\* an own bid at the market price, an own bid and an own offer more than
\* 1% away from it, and a bid of another account
TopUpShapes ==
    { Row(RowFields, "buy",  Num(9538275, 2), SomeBtc),
      Row(RowFields, "buy",  Num(9400000, 2), SomeBtc),
      Row(RowFields, "sell", Num(9700000, 2), SomeBtc),
      [Row(RowFields, "buy", Num(9300000, 2), SomeBtc)
          EXCEPT !.account = "otheraccount"] }

MaxTopUpRows == 2

\* the books of at most MaxTopUpRows rows over these shapes
TopUpVenues ==
    UNION { { [k \in 1..n |-> [f[k] EXCEPT !.identifier = k]] :
                f \in [1..n -> TopUpShapes] } : n \in 0..MaxTopUpRows }

\* abs(price - market_price) / market_price > self.price_threshold
too_far(price, market_price) ==
    LET e == MaxOf(price.e, market_price.e)
        p == Rescale(price, e).m
        m == Rescale(market_price, e).m
        d == IF p < m THEN m - p ELSE p - m
    IN  d * Pow10(price_threshold.e) > price_threshold.m * m

\* the order book the tick works on: the one it fetched; `known` is the
\* book of the tick before
tick_order_bookMut(known, fetched) == known

tick_order_book(known, fetched) == fetched

RECURSIVE adjustment_cancels(_)
\* the loop over our_bids or our_offers: dex.cancel_order for every order
\* too far from the market price; the identifiers of the calls
adjustment_cancels(our_orders) ==
    IF our_orders = <<>> THEN <<>>
    ELSE IF too_far(Head(our_orders).price, filler_market_price)
    THEN <<Head(our_orders).identifier>>
         \o adjustment_cancels(Tail(our_orders))
    ELSE adjustment_cancels(Tail(our_orders))

\* place_buy_orders / place_sell_orders(market_price, .., num_orders) with
\* the balance read: returns at a balance <= 0; otherwise the loop over
\* the prices starts with self.normalize_amount, which no class defines,
\* and AttributeError leaves the method before any place_order call
place_side_orders(balance, num_orders) ==
    IF ~DecLess(Dec(0, 0), balance) THEN [raised |-> FALSE, placed |-> 0]
    ELSE IF num_orders > 0 THEN [raised |-> TRUE, placed |-> 0]
    ELSE [raised |-> FALSE, placed |-> 0]

\* one side of the tick: too few own orders, place the missing ones;
\* otherwise cancel those too far from the market
maintain_side(our_orders, half_orders, balance) ==
    IF Len(our_orders) < half_orders
    THEN [raised |-> place_side_orders(balance,
                                       half_orders - Len(our_orders)).raised,
          cancels |-> <<>>]
    ELSE [raised |-> FALSE, cancels |-> adjustment_cancels(our_orders)]

\* the str the client returns for a balance, or a list
TopUpBalances ==
    { [kind |-> "str", base |-> Dec(0, 8), quote |-> Dec(0, 8)],
      [kind |-> "str", base |-> Dec(100000, 8), quote |-> Dec(10000000, 8)],
      [kind |-> "list"] }

\* place_order calls of the strategy: amount, price
TopUpOrders ==
    { [kind |-> "place_order", account |-> "bentester", order_type |-> ot,
       quantity |-> Dec(1, 3), price |-> filler_market_price,
       quote_symbol |-> pr.quote, base_symbol |-> pr.base] :
      ot \in {"buy", "sell"},
      pr \in { [base |-> "BTC", quote |-> "USDT"],
               [base |-> "DOGE", quote |-> "USDT"] } }

InitTopUp ==
    /\ pc \in {"run", "place_order"}
    /\ base_symbol = "BTC"
    /\ quote_symbol = "USDT"
    /\ IF pc = "run"
       THEN /\ \E n \in {2, 4} :
                 parameters = [num_orders |-> n,
                               min_spread_percentage |-> Dec(1, 2),
                               max_spread_percentage |-> Dec(5, 2)]
            /\ balance_response \in TopUpBalances
            /\ venue \in TopUpVenues
            /\ order = NoCall
       ELSE /\ parameters = NoText
            /\ balance_response = NoText
            /\ venue = <<>>
            /\ order \in TopUpOrders
    /\ loc = NoText
    /\ signal = NoText
    /\ attempts = <<>>
    /\ encoded = NoText
    /\ xfer = NoText
    /\ result = NoText
    /\ ledger = <<>>
    /\ orderbook_filled = FALSE
    /\ price_file = NoText
    /\ reply = NoText
    /\ running = TRUE
    /\ self_orders = {}

\* one iteration of run.  reply keeps the rows the tick fetched, ledger the
\* actions sent since the tick began.
filler_run ==
    /\ pc = "run"
    /\ \E answer \in {"rows", "raise"}, node_page \in 1..MaxTopUpRows :
         IF balance_response.kind # "str"
         THEN /\ loc' = [kind |-> "run", raised |-> TRUE,
                         cancel_calls |-> <<>>]
              /\ ledger' = <<>>
              /\ reply' = [kind |-> "none", rows |-> <<>>, more |-> FALSE]
              /\ venue' = venue
         ELSE
         LET response == get_table_rows(venue, fetch_limit, node_page,
                                        answer)
             known == IF reply = NoText THEN <<>> ELSE reply.rows
             order_book == fetch_order_book_result(
                               [response EXCEPT !.rows =
                                   tick_order_book(known, response.rows)])
             half_orders == parameters.num_orders \div 2
             buys == maintain_side(SelectSeq(order_book.bids, IsOurs),
                                   half_orders, balance_response.quote)
             sells == IF buys.raised
                      THEN [raised |-> TRUE, cancels |-> <<>>]
                      ELSE maintain_side(
                               SelectSeq(order_book.offers, IsOurs),
                               half_orders, balance_response.base)
             calls == buys.cancels \o sells.cancels
         IN  \E replies \in [1..Len(calls) -> {"tx_id", "raise_rejected"}] :
             LET done == { calls[k] : k \in { j \in 1..Len(calls) :
                           cancel_order_result(
                               execute_action(TRUE, replies[j])).success } }
             IN
             /\ loc' = [kind |-> "run", raised |-> sells.raised,
                        cancel_calls |-> calls]
             /\ ledger' = [k \in 1..Len(calls) |->
                             [kind |-> "cancelorder", order |-> calls[k]]]
             /\ reply' = [kind |-> answer, rows |-> response.rows,
                          more |-> /\ response.success
                                   /\ Len(response.rows) < Len(venue)]
             /\ venue' = WithoutCancelled(venue, done)
    /\ UNCHANGED <<self_orders, running, base_symbol, quote_symbol, pc,
                   parameters, balance_response, signal, attempts,
                   orderbook_filled, price_file, order, encoded, xfer,
                   result>>

\* another account's order meets an order of the book, which leaves it
third_party_fill ==
    /\ pc = "run"
    /\ venue # <<>>
    /\ \E k \in 1..Len(venue) :
         venue' = SubSeq(venue, 1, k - 1) \o SubSeq(venue, k + 1, Len(venue))
    /\ UNCHANGED <<self_orders, running, base_symbol, quote_symbol, pc,
                   parameters, balance_response, signal, attempts,
                   orderbook_filled, price_file, reply, loc>>
    /\ UNCHANGED dexVars

\* log_order_result(order_type, amount, price, order_id): `if order_id:`
\* on the dict that dex.place_order returned, which has a "success" key
\* whatever the outcome and so is true
log_order_result(order_id) ==
    IF order_id.keys # {} THEN "Order succeeded" ELSE "Order failed"

\* place_order(order_type, amount, price) of the strategy: dex.place_order,
\* log_order_result, and the dict returned as the order id
filler_place_order ==
    /\ pc = "place_order"
    /\ \E has_key \in BOOLEAN, reply_ \in ChainReplies :
         LET enc == Encode(order)
             t   == TransferCall(order, enc)
             r   == PlaceOrderResult(order, has_key, reply_)
             order_id == [keys |-> IF r.success THEN {"success"}
                                   ELSE {"success", "error"},
                          success |-> r.success]
         IN  /\ encoded' = enc
             /\ xfer' = IF enc.valid THEN t ELSE NoText
             /\ result' = r
             /\ reply' = IF r.sent THEN [kind |-> reply_] ELSE NoText
             /\ ledger' = IF r.sent
                          THEN Append(ledger, TransferLocal(t).request)
                          ELSE ledger
             /\ loc' = [kind |-> "place_order", order_id |-> order_id,
                        logged |-> log_order_result(order_id)]
    /\ pc' = "returned"
    /\ UNCHANGED <<self_orders, running, base_symbol, quote_symbol,
                   parameters, balance_response, signal, attempts,
                   orderbook_filled, price_file, venue, order>>

NextTopUp == filler_run \/ third_party_fill \/ filler_place_order

SpecTopUp == InitTopUp /\ [][NextTopUp]_vars

-----------------------------------------------------------------------------
(* LibreClient.get_table: the walk over the pages of a table.  venue is the
   table, loc the local variables of the call, reply the pages the node
   served to it, in order. *)

MaxTableRows == 6

MaxPage == 3

\* "limit": 1000 of every request
get_table_limit == 1000

NoKey == ""

Tables == { [k \in 1..n |-> [id |-> k]] : n \in 0..MaxTableRows }

\* the rows of the table from lower_bound on ("" is the start)
RowsFrom(table, lower_bound) ==
    IF lower_bound = NoKey THEN table
    ELSE LET at == { k \in 1..Len(table) :
                       ToString(table[k].id) = lower_bound }
         IN  IF at = {} THEN <<>>
             ELSE SubSeq(table, CHOOSE k \in at : TRUE, Len(table))

\* the answer of the node to one get_table_rows request: at most `limit`
\* rows and at most its own page, `more` when rows are left, and then
\* the key of the next row as next_key, which some nodes leave out
TablePage(table, lower_bound, node_page, gives_key) ==
    LET from == RowsFrom(table, lower_bound)
        n    == MinOf(MinOf(get_table_limit, node_page), Len(from))
        more == n < Len(from)
    IN  [lower_bound |-> lower_bound,
         rows     |-> SubSeq(from, 1, n),
         more     |-> more,
         next_key |-> IF more /\ gives_key THEN ToString(from[n + 1].id)
                      ELSE NoKey]

\* the page overwrites the rows collected
extend_rowsMut(all_rows, rows) == rows

\* all_rows.extend(rows)
extend_rows(all_rows, rows) == all_rows \o rows

InitTable ==
    /\ pc = "get_table"
    /\ venue \in Tables
    /\ loc = [kind |-> "get_table", all_rows |-> <<>>, more |-> TRUE,
              next_lower_bound |-> NoKey, total_rows |-> 0]
    /\ reply = [kind |-> "pages", pages |-> <<>>]
    /\ base_symbol = "LIBRE"
    /\ quote_symbol = "BTC"
    /\ parameters = NoText
    /\ balance_response = NoText
    /\ signal = NoText
    /\ attempts = <<>>
    /\ order = [kind |-> "get_table"]
    /\ encoded = NoText
    /\ xfer = NoText
    /\ result = NoText
    /\ ledger = <<>>
    /\ orderbook_filled = FALSE
    /\ price_file = NoText
    /\ running = TRUE
    /\ self_orders = {}

\* one pass of `while more`: the request, the rows added, more and
\* next_key read; the loop ends when more is false or next_key is
\* missing or empty, and the method returns all_rows.  A request that
\* fails raises "Failed to get table" out of the method.
get_table_page ==
    /\ pc = "get_table"
    /\ loc.more
    /\ \E answer \in {"page", "raise"}, node_page \in 1..MaxPage,
          gives_key \in BOOLEAN :
         IF answer = "raise"
         THEN /\ pc' = "raised"
              /\ result' = [kind |-> "raised",
                            error |-> "Failed to get table"]
              /\ UNCHANGED <<loc, reply>>
         ELSE LET page == TablePage(venue, loc.next_lower_bound, node_page,
                                    gives_key)
                  all_rows == extend_rows(loc.all_rows, page.rows)
                  ends == ~page.more \/ page.next_key = NoKey
              IN  /\ reply' = [reply EXCEPT !.pages = Append(@, page)]
                  /\ loc' = [loc EXCEPT
                        !.all_rows = all_rows,
                        !.total_rows = @ + Len(page.rows),
                        !.more = page.more,
                        !.next_lower_bound =
                            IF page.more THEN page.next_key ELSE @]
                  /\ pc' = IF ends THEN "returned" ELSE "get_table"
                  /\ result' = IF ends
                               THEN [kind |-> "rows", rows |-> all_rows,
                                     interrupted |-> FALSE]
                               ELSE result
    /\ UNCHANGED <<self_orders, running, base_symbol, quote_symbol,
                   parameters, balance_response, signal, attempts,
                   orderbook_filled, price_file, venue, order, encoded,
                   xfer, ledger>>

\* KeyboardInterrupt during the walk: the rows collected are returned
get_table_interrupt ==
    /\ pc = "get_table"
    /\ pc' = "returned"
    /\ result' = [kind |-> "rows", rows |-> loc.all_rows,
                  interrupted |-> TRUE]
    /\ UNCHANGED <<self_orders, running, base_symbol, quote_symbol,
                   parameters, balance_response, signal, attempts,
                   orderbook_filled, price_file, venue, order, encoded,
                   xfer, ledger, loc, reply>>

NextTable == get_table_page \/ get_table_interrupt

SpecTable == InitTable /\ [][NextTable]_vars

-----------------------------------------------------------------------------
(* ConfigManager.get_strategy_parameters.  parameters holds what the
   configuration has for the strategy: the entry of strategies.defaults
   and the entry of strategies.<pair>, each a mapping, missing, or a key
   without a value (None). *)

MaxValue == 2

ParameterKeys ==
    {"update_interval_ms", "min_spread_percentage", "min_order_value_usd"}

Mappings == UNION { [ks -> 1..MaxValue] : ks \in SUBSET ParameterKeys }

ConfigEntries ==
    { [kind |-> "mapping", dict |-> d] : d \in Mappings }
    \cup { [kind |-> "missing"], [kind |-> "null"] }

\* get_strategy_defaults(strategy_name) or {}
defaults_or_empty(entry) ==
    IF entry.kind = "mapping" THEN entry.dict ELSE <<>>

\* {**defaults, **strategy_pair_params} with the defaults written last
combined_paramsMut(defaults, strategy_pair_params) ==
    [k \in DOMAIN defaults \cup DOMAIN strategy_pair_params |->
        IF k \in DOMAIN defaults THEN defaults[k]
        ELSE strategy_pair_params[k]]

\* {**defaults, **strategy_pair_params}
combined_params(defaults, strategy_pair_params) ==
    [k \in DOMAIN defaults \cup DOMAIN strategy_pair_params |->
        IF k \in DOMAIN strategy_pair_params THEN strategy_pair_params[k]
        ELSE defaults[k]]

InitConfig ==
    /\ pc = "get_strategy_parameters"
    /\ \E d \in ConfigEntries, p \in ConfigEntries :
         parameters = [defaults |-> d, pair |-> p]
    /\ loc = NoText
    /\ reply = NoText
    /\ venue = <<>>
    /\ base_symbol = "BTC"
    /\ quote_symbol = "USDT"
    /\ balance_response = NoText
    /\ signal = NoText
    /\ attempts = <<>>
    /\ order = NoCall
    /\ encoded = NoText
    /\ xfer = NoText
    /\ result = NoText
    /\ ledger = <<>>
    /\ orderbook_filled = FALSE
    /\ price_file = NoText
    /\ running = TRUE
    /\ self_orders = {}

\* get_strategy_parameters(strategy_name, pair): a pair entry that is a
\* key without a value is taken as it is, and ** of None raises TypeError
get_strategy_parameters ==
    /\ pc = "get_strategy_parameters"
    /\ LET defaults == defaults_or_empty(parameters.defaults)
       IN  IF parameters.pair.kind = "null"
           THEN /\ pc' = "raised"
                /\ result' = [kind |-> "raised", error |-> "TypeError"]
           ELSE /\ pc' = "returned"
                /\ result' = [kind |-> "mapping",
                              dict |-> combined_params(
                                  defaults,
                                  IF parameters.pair.kind = "mapping"
                                  THEN parameters.pair.dict ELSE <<>>)]
    /\ UNCHANGED <<self_orders, running, base_symbol, quote_symbol,
                   parameters, balance_response, signal, attempts,
                   orderbook_filled, price_file, venue, order, encoded,
                   xfer, ledger, loc, reply>>

NextConfig == get_strategy_parameters

SpecConfig == InitConfig /\ [][NextConfig]_vars

-----------------------------------------------------------------------------
(* maintain_orderbook of OrderBookMakerStrategy against a venue that keeps
   the orders by identifier: an accepted cancel removes its order, an
   accepted placement adds one, and nobody else touches the book. *)

\* own orders of the venue above the 2 * min_orders_per_side that
\* maintenance needs
MaxSpare == 1

\* a venue with own bids, own asks and another account's orders
MakerTable(bids, asks, others) ==
    [k \in 1..(bids + asks + others) |->
        [Row(RowFields, IF k <= bids THEN "buy" ELSE "sell",
             Num(k, 1), OneLibre)
           EXCEPT !.identifier = k,
                  !.account = IF k > bids + asks THEN "otheraccount"
                              ELSE "bentester"]]

\* the books a maintenance tick may find: a full one, one with a spare
\* own order and another account's order, and one an order short
MakerVenues ==
    { MakerTable(min_orders_per_side, min_orders_per_side, 0),
      MakerTable(min_orders_per_side - 1, min_orders_per_side, 1) }
    \cup { MakerTable(min_orders_per_side, min_orders_per_side + spare, 1) :
             spare \in 1..MaxSpare }

\* the own orders live on the venue
OwnLive(table) ==
    Cardinality({ k \in 1..Len(table) : table[k].account \in Accounts })

\* get_orderbook_status: own bids and own asks of a fetched book; an
\* exception gives 0, 0
get_orderbook_status(order_book) ==
    Len(SelectSeq(order_book.bids, IsOurs))
    + Len(SelectSeq(order_book.offers, IsOurs))

\* random.sample(our_orders, k): the draws tried are the first and the
\* last k of the list
sample_draws(our_orders, k) ==
    { SubSeq(our_orders, 1, k),
      SubSeq(our_orders, Len(our_orders) - k + 1, Len(our_orders)) }

InitUpkeep ==
    /\ pc = "maintain"
    /\ base_symbol = "LIBRE"
    /\ quote_symbol = "BTC"
    /\ parameters = [min_order_value |-> Dec(1, 3),
                     max_order_value |-> Dec(1, 2), num_orders |-> 20]
    /\ balance_response \in
          { r \in MakerBalanceResponses({Dec(10000, 4)}, "LIBRE") :
              r.kind = "list" }
    /\ price_file = [kind |-> "price", price |-> Dec(100, 10)]
    /\ signal = generate_signal(price_file, Dec(6, 3), Dec(1, 2))
    /\ venue \in MakerVenues
    /\ orderbook_filled = TRUE
    /\ loc = NoText
    /\ attempts = <<>>
    /\ order = NoCall
    /\ encoded = NoText
    /\ xfer = NoText
    /\ result = NoText
    /\ ledger = <<>>
    /\ reply = NoText
    /\ running = TRUE
    /\ self_orders = {}

\* maintain_orderbook(signal) up to the replacement loop, on the venue:
\* the status check, the second fetch, the sample and the cancel loop,
\* which does not look at the results of dex.cancel_order
maintain_cancel_sample ==
    /\ pc = "maintain"
    /\ \E status_answer \in {"rows", "raise"}, answer \in {"rows", "raise"},
          num_to_cancel \in 1..MaxToCancel :
         LET status == get_orderbook_status(fetch_order_book_result(
                           get_table_rows(venue, fetch_limit, fetch_limit,
                                          status_answer)))
             our_orders == our_orders_of(fetch_order_book_result(
                           get_table_rows(venue, fetch_limit, fetch_limit,
                                          answer)))
             k == orders_to_cancel(num_to_cancel, Len(our_orders))
         IN  IF status < min_orders_per_side * 2
             THEN /\ orderbook_filled' = FALSE
                  /\ loc' = [kind |-> "maintain_orderbook",
                             depleted |-> TRUE,
                             total_before |-> OwnLive(venue), ret |-> TRUE]
                  /\ pc' = "idle"
                  /\ UNCHANGED <<ledger, venue>>
             ELSE \E sample \in sample_draws(our_orders, k) :
                  \E replies \in [1..Len(sample) ->
                                     {"tx_id", "raise_rejected"}] :
                    LET lim   == get_order_limits(parameters, base_symbol)
                        total == get_available_balance(balance_response,
                                                       base_symbol)
                        done  == { sample[j].identifier :
                                     j \in { i \in 1..Len(sample) :
                                       cancel_order_result(execute_action(
                                           TRUE, replies[i])).success } }
                    IN  /\ loc' = [kind |-> "maintain_orderbook",
                                   depleted |-> FALSE,
                                   total_before |-> OwnLive(venue),
                                   min_order |-> lim.min_order,
                                   max_order |-> lim.max_order,
                                   per_order_quantity |->
                                       PerOrderQuantity(lim.min_order,
                                           QuantizeShareDown(total, 20)),
                                   cancelled |-> Len(sample),
                                   cancel_succeeded |-> Cardinality(done),
                                   to_replace |-> Len(sample),
                                   placed |-> 0,
                                   next_id |-> Len(venue) + 1,
                                   ret |-> FALSE]
                        /\ ledger' = ledger \o
                              [j \in 1..Len(sample) |->
                                  [kind |-> "cancelorder",
                                   order |-> sample[j].identifier]]
                        /\ venue' = WithoutCancelled(venue, done)
                        /\ pc' = "maintain_replace"
                        /\ UNCHANGED orderbook_filled
    /\ UNCHANGED <<self_orders, running, base_symbol, quote_symbol,
                   parameters, balance_response, signal, attempts,
                   price_file, order, encoded, xfer, result, reply>>

\* one replacement order of maintain_orderbook on the venue, or its return
maintain_place_replacement ==
    /\ pc = "maintain_replace"
    /\ IF loc.to_replace > 0
       THEN \E spread \in {signal.min_spread, signal.max_spread},
               order_type \in {"buy", "sell"}, transfer_ok \in BOOLEAN :
              LET direction == IF order_type = "buy" THEN -1 ELSE 1
                  price     == PriceAt(signal.price, direction,
                                       DecAsFrac(spread))
                  quantity  == ClampQuantity(
                                   DecMul(loc.per_order_quantity,
                                          Dec(105, 2)),
                                   loc.min_order, loc.max_order)
                  r == place_single_order("bentester", order_type,
                           FormatF(quantity, 8), price, base_symbol,
                           quote_symbol, transfer_ok)
              IN  /\ order' = r.call
                  /\ encoded' = IF r.called THEN Encode(r.call) ELSE NoText
                  /\ venue' =
                       IF r.success
                       THEN Append(venue,
                              [Row(RowFields, order_type,
                                   Num(r.call.price.m, r.call.price.e),
                                   OneLibre)
                                 EXCEPT !.identifier = loc.next_id])
                       ELSE venue
                  /\ loc' = [loc EXCEPT
                               !.to_replace = @ - 1,
                               !.placed = IF r.success THEN @ + 1 ELSE @,
                               !.next_id = IF r.success THEN @ + 1 ELSE @]
                  /\ pc' = pc
       ELSE /\ loc' = [loc EXCEPT !.ret = TRUE]
            /\ pc' = "idle"
            /\ UNCHANGED <<order, encoded, venue>>
    /\ UNCHANGED <<self_orders, running, base_symbol, quote_symbol,
                   parameters, balance_response, signal, attempts,
                   price_file, xfer, result, ledger, orderbook_filled,
                   reply>>

NextUpkeep == maintain_cancel_sample \/ maintain_place_replacement

SpecUpkeep == InitUpkeep /\ [][NextUpkeep]_vars

-----------------------------------------------------------------------------
(* OrderBookFillerStrategy.distribute_balance_into_orders(total_balance,
   num_orders) of orderbook_filler.py.  total_balance is the amount of a
   chain balance string, a multiple of 0.00000001; loc holds the
   arguments and the locals, result the list returned. *)

\* the largest balance tried, in units of 0.00000001
MaxSplitUnits == 8

\* the largest num_orders tried; fill_orderbook passes num_orders // 2
MaxSplitOrders == 4

\* Decimal('0.00000001'), the minimum BTC order size
min_order_size == Dec(1, 8)

\* random.shuffle(quantities): the draws tried are the list as it is and
\* the list reversed
shuffle_draws(quantities) ==
    { quantities,
      [k \in 1..Len(quantities) |-> quantities[Len(quantities) + 1 - k]] }

InitSplit ==
    /\ pc = "distribute"
    /\ \E units \in 0..MaxSplitUnits, num_orders \in 0..MaxSplitOrders :
         loc = [kind |-> "distribute_balance_into_orders",
                total_balance |-> Dec(units, 8),
                num_orders |-> num_orders,
                quantities |-> <<>>,
                remaining_balance |-> Dec(units, 8)]
    /\ result = NoText
    /\ base_symbol = "BTC"
    /\ quote_symbol = "USDT"
    /\ parameters = NoText
    /\ balance_response = NoText
    /\ signal = NoText
    /\ attempts = <<>>
    /\ order = NoCall
    /\ encoded = NoText
    /\ xfer = NoText
    /\ ledger = <<>>
    /\ orderbook_filled = FALSE
    /\ price_file = NoText
    /\ venue = <<>>
    /\ reply = NoText
    /\ running = TRUE
    /\ self_orders = {}

\* the test of the balance against num_orders minimum orders
distribute_check ==
    /\ pc = "distribute"
    /\ IF DecLess(loc.total_balance,
                  Dec(min_order_size.m * loc.num_orders, min_order_size.e))
       THEN /\ result' = [kind |-> "list", quantities |-> <<>>]
            /\ pc' = "returned"
       ELSE /\ pc' = "distribute_loop"
            /\ UNCHANGED result
    /\ UNCHANGED <<self_orders, running, base_symbol, quote_symbol,
                   parameters, balance_response, signal, attempts,
                   orderbook_filled, price_file, venue, order, encoded,
                   xfer, ledger, loc, reply>>

\* one turn of `for _ in range(num_orders - 1)`: a quantity drawn between
\* min_order_size and max_possible and quantized to 8 places
distribute_draw ==
    /\ pc = "distribute_loop"
    /\ Len(loc.quantities) < loc.num_orders - 1
    /\ LET max_possible ==
               loc.remaining_balance.m
               - min_order_size.m
                   * (loc.num_orders - Len(loc.quantities) - 1)
       IN  \E quantity \in min_order_size.m..max_possible :
             loc' = [loc EXCEPT
                       !.quantities = Append(@, Dec(quantity, 8)),
                       !.remaining_balance = Dec(@.m - quantity, 8)]
    /\ UNCHANGED <<self_orders, running, base_symbol, quote_symbol,
                   parameters, balance_response, signal, attempts,
                   orderbook_filled, price_file, venue, order, encoded,
                   xfer, ledger, result, reply, pc>>

\* after the loop: the remaining balance is appended when it is a
\* minimum order at least, the list shuffled, and the list returned
distribute_rest ==
    /\ pc = "distribute_loop"
    /\ Len(loc.quantities) >= loc.num_orders - 1
    /\ IF ~DecLess(loc.remaining_balance, min_order_size)
       THEN \E shuffled \in shuffle_draws(
                                Append(loc.quantities,
                                       loc.remaining_balance)) :
              /\ loc' = [loc EXCEPT !.quantities = shuffled]
              /\ result' = [kind |-> "list", quantities |-> shuffled]
       ELSE /\ result' = [kind |-> "list", quantities |-> loc.quantities]
            /\ UNCHANGED loc
    /\ pc' = "returned"
    /\ UNCHANGED <<self_orders, running, base_symbol, quote_symbol,
                   parameters, balance_response, signal, attempts,
                   orderbook_filled, price_file, venue, order, encoded,
                   xfer, ledger, reply>>

NextSplit == distribute_check \/ distribute_draw \/ distribute_rest

SpecSplit == InitSplit /\ [][NextSplit]_vars

-----------------------------------------------------------------------------
(* The price file between two processes: fetch_prices.py calls write_price,
   a strategy calls read_price.  The lock of shared_data.py is an object
   of each process, so the steps of the two calls interleave freely.
   price_file holds the file (exists, text: its characters), the text
   json.dump left in the writer's buffer until the file is closed
   (pending), and the prices of the write_price calls that have returned
   (written). *)

\* float(price) of the feed, with one decimal
FeedWrites == { Dec(95, 1), Dec(125, 1), Dec(1265, 1) }

RECURSIVE DigitsOf(_)
\* the decimal digits of a natural number
DigitsOf(n) ==
    IF n < 10 THEN <<ToString(n)>>
    ELSE DigitsOf(n \div 10) \o <<ToString(n % 10)>>

\* json.dump({"price": price}, f): the characters handed to the file
JsonDump(price) ==
    <<"{", "\"price\"", ":", " ">>
    \o DigitsOf(price.m \div 10) \o <<".">> \o <<ToString(price.m % 10)>>
    \o <<"}">>

IsDigit(c) == \E d \in 0..9 : ToString(d) = c

RECURSIVE DigitsValue(_)
DigitsValue(chars) ==
    IF chars = <<>> THEN 0
    ELSE DigitsValue(SubSeq(chars, 1, Len(chars) - 1)) * 10
         + (CHOOSE d \in 0..9 : ToString(d) = chars[Len(chars)])

\* the first position of a character in a text, 0 when it has none
FirstOf(c, text) ==
    IF \E k \in 1..Len(text) : text[k] = c
    THEN CHOOSE k \in 1..Len(text) :
            text[k] = c /\ \A j \in 1..(k - 1) : text[j] # c
    ELSE 0

\* a JSON number: digits, or digits "." digits
JsonNumber(chars) ==
    LET dot   == FirstOf(".", chars)
        whole == IF dot = 0 THEN chars ELSE SubSeq(chars, 1, dot - 1)
        frac  == IF dot = 0 THEN <<>>
                 ELSE SubSeq(chars, dot + 1, Len(chars))
        valid == /\ whole # <<>>
                 /\ dot # 0 => frac # <<>>
                 /\ \A k \in 1..Len(whole) : IsDigit(whole[k])
                 /\ \A k \in 1..Len(frac) : IsDigit(frac[k])
    IN  IF valid
        THEN [kind |-> "price",
              price |-> Dec(DigitsValue(whole \o frac), Len(frac))]
        ELSE NoText

\* json.load(f) then data.get("price") inside read_price's try block: the
\* text must be one object and nothing after it, else JSONDecodeError is
\* raised and read_price returns None
JsonLoad(text) ==
    LET close == FirstOf("}", text)
    IN  IF /\ Len(text) >= 6
           /\ SubSeq(text, 1, 4) = <<"{", "\"price\"", ":", " ">>
           /\ close = Len(text)
        THEN JsonNumber(SubSeq(text, 5, close - 1))
        ELSE NoText

InitPrice ==
    /\ pc = "read_price"
    /\ price_file = [kind |-> "file", exists |-> FALSE, text |-> <<>>,
                     pending |-> NoText, written |-> {}]
    /\ base_symbol = "LIBRE"
    /\ quote_symbol = "USDT"
    /\ parameters = [min_order_value |-> Dec(1, 3),
                     max_order_value |-> Dec(1, 2), num_orders |-> 20]
    /\ signal = [price |-> Dec(0, 0), min_spread |-> Dec(6, 3),
                 max_spread |-> Dec(1, 2)]
    /\ loc = NoText
    /\ result = NoText
    /\ balance_response = NoText
    /\ attempts = <<>>
    /\ order = NoCall
    /\ encoded = NoText
    /\ xfer = NoText
    /\ ledger = <<>>
    /\ orderbook_filled = FALSE
    /\ venue = <<>>
    /\ reply = NoText
    /\ running = TRUE
    /\ self_orders = {}

\* write_price up to json.dump: open(file_path, "w") creates or empties
\* the file, json.dump fills the buffer
write_price_open ==
    /\ price_file.pending = NoText
    /\ \E price \in FeedWrites :
         price_file' = [price_file EXCEPT
                          !.exists = TRUE,
                          !.text = <<>>,
                          !.pending = [kind |-> "text", price |-> price,
                                       text |-> JsonDump(price)]]
    /\ UNCHANGED <<self_orders, running, base_symbol, quote_symbol,
                   parameters, balance_response, signal, attempts,
                   orderbook_filled, venue, order, encoded, xfer, ledger,
                   result, loc, reply, pc>>

\* the end of write_price's with block: the buffer is written out in one
\* call, the file closed, and write_price returns
write_price_close ==
    /\ price_file.pending # NoText
    /\ price_file' = [price_file EXCEPT
                        !.text = price_file.pending.text,
                        !.pending = NoText,
                        !.written = @ \cup {price_file.pending.price}]
    /\ UNCHANGED <<self_orders, running, base_symbol, quote_symbol,
                   parameters, balance_response, signal, attempts,
                   orderbook_filled, venue, order, encoded, xfer, ledger,
                   result, loc, reply, pc>>

\* read_price up to json.load: open(file_path, "r"); FileNotFoundError
\* makes read_price return None
read_price_open ==
    /\ pc = "read_price"
    /\ loc' = [kind |-> "read_price", data |-> <<>>, pos |-> 0]
    /\ result' = NoText
    /\ pc' = IF price_file.exists THEN "read" ELSE "get_market_price"
    /\ UNCHANGED <<self_orders, running, base_symbol, quote_symbol,
                   parameters, balance_response, signal, attempts,
                   orderbook_filled, price_file, venue, order, encoded,
                   xfer, ledger, reply>>

\* f.read() of json.load: the file is read from the position reached
\* until a read returns nothing, then the text is decoded
read_price_read ==
    /\ pc = "read"
    /\ LET chunk == SubSeq(price_file.text, loc.pos + 1,
                           Len(price_file.text))
       IN  IF chunk = <<>>
           THEN /\ result' = JsonLoad(loc.data)
                /\ pc' = "get_market_price"
                /\ UNCHANGED loc
           ELSE /\ loc' = [loc EXCEPT !.data = @ \o chunk,
                                      !.pos = @ + Len(chunk)]
                /\ UNCHANGED <<result, pc>>
    /\ UNCHANGED <<self_orders, running, base_symbol, quote_symbol,
                   parameters, balance_response, signal, attempts,
                   orderbook_filled, price_file, venue, order, encoded,
                   xfer, ledger, reply>>

\* the rest of the iteration of run: get_market_price and generate_signal
\* on what read_price returned, and a buy order of place_orders handed
\* to _place_single_order
price_tick ==
    /\ pc = "get_market_price"
    /\ LET sig   == generate_signal(result, signal.min_spread,
                                    signal.max_spread)
           price == PriceAt(sig.price, -1, DecAsFrac(sig.min_spread))
       IN  \E transfer_ok \in BOOLEAN :
             LET r == place_single_order("bentester", "buy",
                          Dec(10000, 4), price, base_symbol, quote_symbol,
                          transfer_ok)
             IN  /\ signal' = sig
                 /\ attempts' = <<MakerAttempt("buy",
                                     DecAsFrac(sig.min_spread), price, r)>>
                 /\ order' = r.call
                 /\ encoded' = IF r.called THEN Encode(r.call) ELSE NoText
    /\ pc' = "read_price"
    /\ UNCHANGED <<self_orders, running, base_symbol, quote_symbol,
                   parameters, balance_response, orderbook_filled,
                   price_file, venue, xfer, ledger, result, loc, reply>>

NextPrice ==
    write_price_open \/ write_price_close \/ read_price_open
    \/ read_price_read \/ price_tick

SpecPrice == InitPrice /\ [][NextPrice]_vars

-----------------------------------------------------------------------------
(* Properties of place_distributed_orders (SpecDist) *)

InDistPass == pc \in {"dist_buy", "dist_sell", "dist_done"}

RECURSIVE SumQuantities(_, _)
\* the sum of the first k attempted quantities, in units of 10^-8
SumQuantities(as, k) ==
    IF k = 0 THEN 0
    ELSE Rescale(as[k].quantity, 8).m + SumQuantities(as, k - 1)

WithinLimits(q, lo, hi) == ~DecLess(q, lo) /\ ~DecLess(hi, q)

\* C1: the quantities assigned in one placement pass sum to at most
\* total_balance and each lies within [min_order, max_order].
C1_AllocationSafety ==
    InDistPass =>
        /\ SumQuantities(attempts, Len(attempts))
               <= Rescale(loc.total_balance, 8).m
        /\ \A k \in 1..Len(attempts) :
               WithinLimits(attempts[k].quantity, loc.min_order, loc.max_order)

ClaimMin(a, b) == IF a < b THEN a ELSE b

\* C2: the order count is min(configured num_orders, floor(total_balance /
\* min_order)); with a count of 0 the pass fails and submits no order.
C2_OrderCount ==
    InDistPass =>
        /\ loc.num_orders =
               ClaimMin(parameters.num_orders,
                        MaxPossibleOrders(loc.total_balance, loc.min_order))
        /\ loc.num_orders = 0 => (attempts = <<>> /\ ~loc.ret)

\* total / parts rounded down to p fractional digits
ClaimShareDown(total, parts, p) ==
    IF p >= total.e THEN Dec((total.m * Pow10(p - total.e)) \div parts, p)
    ELSE Dec(total.m \div (parts * Pow10(total.e - p)), p)

ClaimClamp(x, lo, hi) ==
    IF DecLess(x, lo) THEN lo ELSE IF DecLess(hi, x) THEN hi ELSE x

\* C3: with a positive count the per-order quantity is
\* clamp(total_balance / count, min_order, max_order) rounded down to the
\* base token's precision, so it never exceeds max_order.
C3_PerOrderClamp ==
    (InDistPass /\ loc.num_orders > 0) =>
        /\ DecSame(loc.per_order_quantity,
                   ClaimClamp(ClaimShareDown(loc.total_balance, loc.num_orders,
                                  TOKEN_SPECS(base_symbol).precision),
                              loc.min_order, loc.max_order))
        /\ ~DecLess(loc.max_order, loc.per_order_quantity)

\* the spreads of one side of the pass, in rung order
SideSpreads(side) ==
    SelectSeq(attempts, LAMBDA a : a.order_type = side)

\* a spread of the pass equals the decimal x
SpreadIs(sp, x) == sp.n = Rescale(x, sp.e).m * sp.d

\* C4: for n > 1 rungs and lo <= hi the spreads of one side are
\* non-decreasing in rung order, the first is min_spread, the last
\* max_spread.
C4_LadderMonotone ==
    (/\ pc = "dist_done"
     /\ loc.orders_per_side > 1
     /\ ~DecLess(signal.max_spread, signal.min_spread)) =>
        \A side \in {"buy", "sell"} :
            LET sps == SideSpreads(side) IN
            /\ Len(sps) = loc.orders_per_side
            /\ \A k \in 1..(Len(sps) - 1) : sps[k].spread.n <= sps[k + 1].spread.n
            /\ SpreadIs(sps[1].spread, signal.min_spread)
            /\ SpreadIs(sps[Len(sps)].spread, signal.max_spread)

\* C5: a ladder of one rung (a balance that affords one order) is
\* [min_spread]: the computation does not fail and the order is placed at
\* min_spread.
C5_SingleRung ==
    (pc = "dist_done" /\ loc.num_orders = 1) =>
        /\ ~loc.raised
        /\ Len(attempts) = 1
        /\ SpreadIs(attempts[1].spread, signal.min_spread)

\* C10: in every memo produced for an order the quantity has exactly the
\* base token's precision in fractional digits, and the price has exactly
\* 10 fractional digits for a BTC quote, the quote token's precision
\* otherwise.
C10_EncodedPrecision ==
    (InDistPass /\ encoded # NoText) =>
        /\ encoded.memo.quantity.e = TOKEN_SPECS(base_symbol).precision
        /\ encoded.memo.price.e =
               IF quote_symbol = "BTC" THEN 10
               ELSE TOKEN_SPECS(quote_symbol).precision

-----------------------------------------------------------------------------
(* Properties of OrderBookMakerStrategy (SpecMaker) *)

\* C6: no order is submitted from a signal whose max_spread is below its
\* min_spread.
C6_InvertedRangeRejected ==
    DecLess(signal.max_spread, signal.min_spread) =>
        \A k \in 1..Len(attempts) : ~attempts[k].called

\* C7: from a signal with a positive price and positive spreads,
\* min_spread <= max_spread, every submitted buy is priced strictly below
\* the base price and every submitted sell strictly above it.
C7_BuyBelowSellAbove ==
    (/\ signal.price.m > 0
     /\ signal.min_spread.m > 0
     /\ ~DecLess(signal.max_spread, signal.min_spread)) =>
        \A k \in 1..Len(attempts) :
            attempts[k].called =>
                IF attempts[k].order_type = "buy"
                THEN DecLess(attempts[k].formatted_price, signal.price)
                ELSE DecLess(signal.price, attempts[k].formatted_price)

\* C11: an order whose quantity or price is zero or negative once rounded
\* to its encoded precision is not submitted to the venue: dex.place_order
\* is never called with, and never writes a memo with, a zero quantity or a
\* zero price.
C11_NoZeroEncoded ==
    encoded # NoText =>
        /\ order.quantity.m > 0
        /\ order.price.m > 0
        /\ encoded.memo.quantity.m > 0
        /\ encoded.memo.price.m > 0

\* C19: in a tick whose order-book fetch failed the engine declares no
\* depletion, cancels no order and places no order.
C19_FetchFailureAbortsTick ==
    (loc # NoText /\ loc.fetch_failed) =>
        /\ ~loc.reset
        /\ ledger = <<>>
        /\ attempts = <<>>

\* C20: while the book is not filled and the price file gives no price,
\* the engine stays idle and submits no order and no cancel in the tick.
C20_NoPriceStaysIdle ==
    price_file.kind # "price" =>
        /\ ~orderbook_filled
        /\ ledger = <<>>
        /\ \A k \in 1..Len(attempts) : ~attempts[k].called

\* fill_orderbook_gradually has returned
FillPassEnded ==
    pc = "idle" /\ loc # NoText /\ loc.kind = "fill_orderbook_gradually"

\* maintain_orderbook is past its status check and its cancel loop
InMaintenanceStep ==
    /\ loc # NoText
    /\ loc.kind = "maintain_orderbook"
    /\ "cancelled" \in DOMAIN loc

\* C21: when a fill pass has ended, the engine is Maintaining
\* (orderbook_filled), whether or not a placement of the pass failed.
C21_FillEndsInMaintaining == FillPassEnded => orderbook_filled

\* C22: a refill that follows a depletion found while Maintaining starts
\* only after the tick has cancelled the remaining orders.
C22_RefillAfterCancel ==
    (/\ loc # NoText
     /\ loc.kind = "fill_orderbook_gradually"
     /\ loc.after_depletion) => loc.reset

C24_OracleFailureKeepsOrders ==
    (/\ loc # NoText
     /\ loc.kind = "maintain_orderbook"
     /\ price_file.kind # "price") =>
        /\ ledger = <<>>
        /\ \A k \in 1..Len(attempts) : ~attempts[k].called

\* C25: a fill pass goes through all the rungs of both sides before it
\* returns, also when a placement failed.
C25_FailureDoesNotAbortPass ==
    FillPassEnded =>
        (loc.side = "sell" /\ loc.i = initial_orders_per_side)

\* C28: no two orders of one side are handed to the venue with the same
\* price in one fill pass.
C28_NoDuplicatePrice ==
    (loc # NoText /\ loc.kind = "fill_orderbook_gradually") =>
        \A i, j \in 1..Len(attempts) :
            (/\ i < j
             /\ attempts[i].called
             /\ attempts[j].called
             /\ attempts[i].order_type = attempts[j].order_type)
                => attempts[i].formatted_price # attempts[j].formatted_price

\* C36: a fill pass that reports success has placed at least
\* 2 * min_orders_per_side orders, so that the next tick, with no third
\* party touching the book, does not count too few and reset again.
C36_SuccessfulFillIsStocked ==
    (FillPassEnded /\ loc.ret) =>
        Len(attempts) >= min_orders_per_side * 2

-----------------------------------------------------------------------------
(* Properties of DexClient.place_order and LibreClient.transfer (SpecDex) *)

PlacedOrder == pc = "returned" /\ order.kind = "place_order" /\ encoded.valid

\* twice the distance between two decimals is at most one unit of the
\* last place of the second
WithinHalfUnit(x, y) ==
    LET e == MaxOf(x.e, y.e)
        a == Rescale(x, e).m
        b == Rescale(y, e).m
    IN  /\ 2 * (a - b) <= Pow10(e - y.e)
        /\ 2 * (b - a) <= Pow10(e - y.e)

C9_TransferCarriesOrder ==
    (PlacedOrder /\ order.quantity.m > 0 /\ order.price.m > 0) =>
        /\ xfer.from_account = order.account
        /\ xfer.to_account = "dex.libre"
        /\ Len(xfer.quantity) = 2
        /\ xfer.contract = NameText(encoded.contract)
        /\ xfer.memo = encoded.memo
        /\ result.error \notin {"Invalid quantity format", "No contract specified"}

\* C33: transfer refuses a malformed request with an error result and
\* sends nothing: a quantity that is not two words fails with "Invalid
\* quantity format", a symbol without a known contract and with no contract
\* given fails with "No contract specified".
C33_MalformedTransferRejected ==
    (pc = "returned" /\ order = NoCall) =>
        /\ Len(xfer.quantity) # 2 =>
              /\ ~result.success
              /\ result.error = "Invalid quantity format"
              /\ ledger = <<>>
        /\ (/\ Len(xfer.quantity) = 2
            /\ xfer.quantity[2] \notin Symbols
            /\ xfer.contract = NoText) =>
              /\ ~result.success
              /\ result.error = "No contract specified"
              /\ ledger = <<>>

\* transfer returned for "<amount> UNKNOWN" with no contract given
C33_Witness ==
    /\ pc = "returned"
    /\ order = NoCall
    /\ Len(xfer.quantity) = 2
    /\ xfer.quantity[2] = "UNKNOWN"
    /\ xfer.contract = NoText
    /\ ~result.success

-----------------------------------------------------------------------------
(* Properties of DexClient.fetch_order_book and DexClient.cancel_order
   (SpecBook) *)

FetchReturned == pc = "returned" /\ order.kind = "fetch_order_book"

CancelReturned == pc = "returned" /\ order.kind = "cancel_order"

\* the position of an order's row in the rows the venue sent
ArrivalOf(o) ==
    CHOOSE k \in 1..Len(reply.rows) :
        ToString(reply.rows[k].identifier) = o.identifier

\* a row with its four required fields, a quantity and a numeric price
Decodable(row) ==
    /\ {"identifier", "account", "price", "baseAsset"} \subseteq row.has
    /\ Len(row.baseAsset) > 0
    /\ row.price.num

ListsRow(orders, row) ==
    \E k \in 1..Len(orders) : orders[k].identifier = ToString(row.identifier)

\* C13: a cancel that failed because the chain could not be reached
\* returns an error different from the one returned when the chain
\* refused the cancel.
C13_TransportDistinctFromRejection ==
    (CancelReturned /\ reply # NoText /\ reply.kind = "raise_transport") =>
        \A answer \in {"no_tx_id", "raise_rejected"} :
            result.error # cancel_order_result(execute_action(TRUE, answer)).error

\* C14: a cancel of an order identifier that is not in the book, refused
\* by the chain, returns success.
C14_IdempotentCancel ==
    (/\ CancelReturned
     /\ reply # NoText
     /\ reply.kind \in {"no_tx_id", "raise_rejected"}
     /\ ~InBook(venue, order.order_id)) => result.success

\* C15: in the book returned by fetch_order_book the bids are in
\* descending and the offers in ascending order of price, and orders of
\* equal price are in the order in which their rows arrived.
C15_BookOrdering ==
    FetchReturned =>
        /\ \A i, j \in 1..Len(result.bids) : i < j =>
             /\ ~DecLess(result.bids[i].price, result.bids[j].price)
             /\ DecSame(result.bids[i].price, result.bids[j].price) =>
                  ArrivalOf(result.bids[i]) < ArrivalOf(result.bids[j])
        /\ \A i, j \in 1..Len(result.offers) : i < j =>
             /\ ~DecLess(result.offers[j].price, result.offers[i].price)
             /\ DecSame(result.offers[i].price, result.offers[j].price) =>
                  ArrivalOf(result.offers[i]) < ArrivalOf(result.offers[j])

\* three bids came back: the last one to arrive, at the highest price,
\* first, then two of equal price (written "0.1" and "0.10") in their
\* order of arrival
C15_Witness ==
    /\ FetchReturned
    /\ Len(result.bids) = 3
    /\ result.bids[1].identifier = "3"
    /\ result.bids[2].identifier = "1"
    /\ result.bids[3].identifier = "2"
    /\ result.bids[2].price # result.bids[3].price
    /\ DecSame(result.bids[2].price, result.bids[3].price)

\* C16: of the rows the venue sent, every decodable row is in the bids
\* exactly when its type is "buy" and in the offers otherwise, and no
\* other row is in the bids or in the offers.
C16_DecodePartition ==
    (FetchReturned /\ reply.kind = "rows") =>
        \A k \in 1..Len(reply.rows) :
            LET row   == reply.rows[k]
                isbid == "type" \in row.has /\ row.type = "buy"
            IN  IF Decodable(row)
                THEN /\ ListsRow(result.bids, row) <=> isbid
                     /\ ListsRow(result.offers, row) <=> ~isbid
                ELSE /\ ~ListsRow(result.bids, row)
                     /\ ~ListsRow(result.offers, row)

\* C17: every order resting on the venue (all rows well formed) is in the
\* book that fetch_order_book returns, whatever the number of rows.
C17_FetchIsComplete ==
    (/\ FetchReturned
     /\ reply.kind = "rows"
     /\ \A k \in 1..Len(venue) : Decodable(venue[k])) =>
        \A k \in 1..Len(venue) :
            \/ ListsRow(result.bids, venue[k])
            \/ ListsRow(result.offers, venue[k])

\* C18: after a transport error of the table read, the result of
\* fetch_order_book does not read as a book without bids and offers.
C18_FailureIsNotEmptyBook ==
    (FetchReturned /\ reply.kind = "raise") =>
        ~(result.bids = <<>> /\ result.offers = <<>>)

-----------------------------------------------------------------------------
(* Properties of the other callers of _place_single_order (SpecCallers) *)

\* C29: the placement attempts of one fill pass are not more than its
\* rungs.
C29_AttemptsBoundedByRungs ==
    (loc # NoText /\ "attempted" \in DOMAIN loc) =>
        loc.attempted <= old_total_orders

\* C30: every quantity handed to the venue after a random variation lies
\* between min_order and max_order.
C30_JitterReclamped ==
    LET lim == get_order_limits(parameters, base_symbol) IN
    \A k \in 1..Len(attempts) :
        attempts[k].called =>
            /\ ~DecLess(attempts[k].call.quantity, lim.min_order)
            /\ ~DecLess(lim.max_order, attempts[k].call.quantity)

-----------------------------------------------------------------------------
(* properties of SpecRun *)

\* C26: no error of a tick ends the loop of run; when the loop has ended,
\* a shutdown was requested.
C26_OnlyShutdownEndsLoop ==
    pc \in {"cleanup", "exited"} => loc.stopped_by = "KeyboardInterrupt"

\* C27: the cleanup pass has called cancel once for every own order of the
\* book it fetched, in the order of the list, before run exits.
C27_CleanupCancelsEveryOwnOrder ==
    pc = "exited" => loc.cancel_calls = loc.our_orders


-----------------------------------------------------------------------------
(* properties of SpecCancelAll *)

\* C31: a cancel-all pass has called cancel once for every own order of
\* the book it fetched, own bids before own offers, and for no order of
\* another account.
C31_OneCancelPerOwnOrder ==
    (pc = "returned" /\ loc # NoText /\ loc.kind = "cancel_orders")
        => loc.cancel_calls = loc.our_orders


-----------------------------------------------------------------------------
(* properties of SpecTopUp *)

\* the identifiers of the rows the tick fetched
FetchedThisTick ==
    IF reply = NoText THEN {}
    ELSE { ToString(reply.rows[k].identifier) : k \in 1..Len(reply.rows) }

C39_TrackedOnlyIfAccepted ==
    (pc = "returned" /\ loc # NoText /\ loc.kind = "place_order") =>
        /\ loc.logged = "Order succeeded" => result.success
        /\ self_orders # {} => result.success


-----------------------------------------------------------------------------
(* properties of SpecTable *)

RECURSIVE RowsOfPages(_)
RowsOfPages(pages) ==
    IF pages = <<>> THEN <<>>
    ELSE Head(pages).rows \o RowsOfPages(Tail(pages))

\* C34: get_table returns the rows of the pages it was served, in the
\* order of the pages; every page but the last reported more rows and
\* gave the key the next request started from, and the last page reported
\* no more rows or gave no key.
C34_PagesConcatenated ==
    (pc = "returned" /\ ~result.interrupted) =>
        LET pages == reply.pages IN
        /\ Len(pages) >= 1
        /\ result.rows = RowsOfPages(pages)
        /\ pages[1].lower_bound = NoKey
        /\ \A k \in 1..(Len(pages) - 1) :
              /\ pages[k].more
              /\ pages[k].next_key # NoKey
              /\ pages[k + 1].lower_bound = pages[k].next_key
        /\ ~pages[Len(pages)].more \/ pages[Len(pages)].next_key = NoKey

\* a walk of three pages returned the whole table
C34_Witness ==
    /\ pc = "returned"
    /\ ~result.interrupted
    /\ Len(reply.pages) = 3
    /\ result.rows = venue


-----------------------------------------------------------------------------
(* properties of SpecConfig *)

\* C35: the parameters returned hold every default key, with the default
\* value unless the pair overrides it, and every pair-specific key with
\* the pair-specific value.
C35_DefaultsOverlaidByPair ==
    (pc = "returned" /\ result.kind = "mapping") =>
        LET defaults == IF parameters.defaults.kind = "mapping"
                        THEN parameters.defaults.dict ELSE <<>>
            specific == IF parameters.pair.kind = "mapping"
                        THEN parameters.pair.dict ELSE <<>>
        IN  /\ \A k \in DOMAIN specific :
                  k \in DOMAIN result.dict /\ result.dict[k] = specific[k]
            /\ \A k \in DOMAIN defaults :
                  /\ k \in DOMAIN result.dict
                  /\ k \notin DOMAIN specific
                        => result.dict[k] = defaults[k]

\* a default was overridden by a different pair-specific value while
\* another default was kept
C35_Witness ==
    /\ pc = "returned"
    /\ result.kind = "mapping"
    /\ parameters.defaults.kind = "mapping"
    /\ parameters.pair.kind = "mapping"
    /\ \E k \in DOMAIN parameters.defaults.dict
               \cap DOMAIN parameters.pair.dict :
          /\ parameters.defaults.dict[k] # parameters.pair.dict[k]
          /\ result.dict[k] = parameters.pair.dict[k]
    /\ \E k \in DOMAIN parameters.defaults.dict :
          k \notin DOMAIN parameters.pair.dict


-----------------------------------------------------------------------------
(* properties of SpecUpkeep *)

\* a maintenance tick has gone through its cancels and replacements
UpkeepTickEnded ==
    pc = "idle" /\ loc # NoText /\ loc.kind = "maintain_orderbook"
    /\ ~loc.depleted

\* C37: a maintenance tick never leaves the account with more live
\* orders than it found, and leaves as many when every cancel and every
\* replacement of the tick succeeded.
C37_TotalNeverGrows ==
    UpkeepTickEnded =>
        /\ OwnLive(venue) <= loc.total_before
        /\ (loc.cancel_succeeded = loc.cancelled
            /\ loc.placed = loc.cancelled)
               => OwnLive(venue) = loc.total_before


-----------------------------------------------------------------------------
(* properties of SpecSplit *)

RECURSIVE SumUnits(_)
\* the sum of a list of quantities, in units of 0.00000001
SumUnits(quantities) ==
    IF quantities = <<>> THEN 0
    ELSE Rescale(Head(quantities), 8).m + SumUnits(Tail(quantities))

\* C38: distribute_balance_into_orders returns the empty list or exactly
\* num_orders quantities, each of the minimum order size at least, whose
\* sum does not exceed total_balance.
C38_EmptyOrExactSplit ==
    (pc = "returned" /\ loc # NoText
     /\ loc.kind = "distribute_balance_into_orders") =>
        \/ result.quantities = <<>>
        \/ /\ Len(result.quantities) = loc.num_orders
           /\ \A k \in 1..Len(result.quantities) :
                 ~DecLess(result.quantities[k], Dec(1, 8))
           /\ SumUnits(result.quantities)
                 <= Rescale(loc.total_balance, 8).m


-----------------------------------------------------------------------------
(* properties of SpecPrice *)

\* C40: what read_price returns to a strategy while fetch_prices writes
\* the file is None or a price that a write_price call has fully
\* written; no order is handed to the venue at a price of 0, and a tick
\* whose read gave None hands no order to the venue.
C40_ReadIsWrittenOrNone ==
    /\ result.kind = "price" =>
          \E w \in price_file.written : DecSame(result.price, w)
    /\ \A k \in 1..Len(attempts) :
          attempts[k].called => attempts[k].formatted_price.m > 0
    /\ (pc = "read_price" /\ loc # NoText /\ result = NoText) =>
          \A k \in 1..Len(attempts) : ~attempts[k].called

\* a read that ran into a write: it took characters of the file and
\* returned None, and the tick handed no order to the venue
C40_Witness ==
    /\ pc = "read_price"
    /\ loc # NoText
    /\ Len(loc.data) > 0
    /\ result = NoText
    /\ Len(attempts) = 1
    /\ ~attempts[1].called

=============================================================================
